---------------------------- MODULE Spec2Model ----------------------------
(***************************************************************************)
(* compare-backend: the access-control and quota-gating pipeline.          *)
(*                                                                         *)
(* The repository holds several versions of the same server.  Each version *)
(* is one program of this module; the variable prog says which of them is  *)
(* running, and every action belongs to exactly one program:               *)
(*                                                                         *)
(*   "install"  unnamed/part_004   consumePoint, POST /v1/compare-multi    *)
(*   "bucket"   middleware/rateLimit.js (1-62) and unnamed/part_003        *)
(*   "store"    middleware/authSoft.js, rateLimit.js (64-145), proGuard.js *)
(*   "store2"   middleware/authSoft.js, unnamed/part_002, proGuard.js      *)
(*   "stub"     unnamed/part_007   authSoft -> rateLimit -> proGuard       *)
(*   "guard"    middleware/realModeGuard.js                                *)
(*                                                                         *)
(* Time is Date.now() counted in ticks; a UTC day has DayLen ticks.        *)
(***************************************************************************)
EXTENDS Integers, Sequences, FiniteSets, Bags, TLC

VARIABLES
    prog,               \* which version of the server is running
    now,                \* Date.now()
    FREE_DAILY_LIMIT,   \* process.env.FREE_DAILY_LIMIT, read at start-up
    RL_DEBUG_SECRET,    \* process.env.RL_DEBUG_SECRET ("" when not set)
    DEBUG_WHITELIST,    \* process.env.RL_DEBUG_WHITELIST, split at the commas
    DEVICE_MAX,         \* process.env.DEVICE_MAX
    SIMULATE,           \* process.env.SIMULATE === "true" (part_007)
    buckets,            \* Map key -> {count, resetAt} (part_004, rateLimit.js:15)
    store,              \* Map "day:userKey" -> count (rateLimit.js:78, part_002:8)
    rlStore,            \* {day, hitsByKey} (part_007:22)
    licenseDevices,     \* Map licenseId -> Set(deviceId) (realModeGuard.js:7)
    reqs,               \* bag of the handlers suspended at an await
    resp,               \* the exchange being completed ("none": there is none)
    today,              \* history: quota decisions per key in the current UTC day
    admitted,           \* history: requests admitted per key in the current UTC day
    arrived,            \* history: per license, the distinct device ids in order of arrival
    FREE_ALLOW_SUMMARY, \* process.env.FREE_ALLOW_SUMMARY === "true" (part_009:29)
    FREE_MAX_PROVIDERS, \* freeMaxProviders (part_009:28)
    usage,              \* Map "token|day" -> count (part_009:33)
    fan,                \* the comparison request whose provider calls are in progress
    issued              \* history: per activation key, the licenseId and deviceId of each token issued

config == <<prog, FREE_DAILY_LIMIT, RL_DEBUG_SECRET, DEBUG_WHITELIST, DEVICE_MAX, SIMULATE,
            FREE_ALLOW_SUMMARY, FREE_MAX_PROVIDERS>>

vars == <<config, now, buckets, store, rlStore, licenseDevices, reqs, resp,
          today, admitted, arrived, fan, usage, issued>>

---------------------------------------------------------------------------
(* Bounds of the model *)

\* ticks of Date.now() per UTC day
DayLen == 2
\* the clock stops here
MaxNow == 4
\* FREE_DAILY_LIMIT ranges over 1..MaxLimit
MaxLimit == 2
\* quota decisions per key and UTC day
MaxHits == 3
\* handlers that can be suspended at the same time
MaxInFlight == 2
\* DEVICE_MAX ranges over 1..MaxDeviceMax
MaxDeviceMax == 2
\* length of the provider list of a request
MaxProviders == 2
\* milliseconds per step of the clock of a comparison request
TickMs == 10000
\* steps of that clock
MaxAge == 5

---------------------------------------------------------------------------
(* Helpers *)

EmptyMap == [x \in {} |-> 0]

Put(m, k, v) == [x \in (DOMAIN m) \cup {k} |-> IF x = k THEN v ELSE m[x]]

Max0(n) == IF n > 0 THEN n ELSE 0

\* the UTC calendar day of a timestamp
utcDay(t) == t \div DayLen

NoResp == [kind |-> "none"]

\* no comparison request is in progress
NoFan == [phase |-> "idle"]

---------------------------------------------------------------------------
(* unnamed/part_004: daily limiter by install id *)

InstallIds == {"i1", "i2"}

\* d.setUTCHours(24, 0, 0, 0): 00:00:00.000 UTC of the next day
nextUtcMidnightTs(t) == (utcDay(t) + 1) * DayLen

\* the test that starts a new bucket
bucketExpired(t, resetAt) == t > resetAt

\* consumePoint(installId): [b: the new buckets, remaining, limited]
consumePoint(b, installId, t, limit) ==
    IF installId = ""
    THEN [b |-> b, remaining |-> 0, limited |-> TRUE]
    ELSE IF installId \notin DOMAIN b \/ bucketExpired(t, b[installId].resetAt)
    THEN [b |-> Put(b, installId, [count |-> 1, resetAt |-> nextUtcMidnightTs(t)]),
          remaining |-> Max0(limit - 1), limited |-> FALSE]
    ELSE IF b[installId].count >= limit
    THEN [b |-> b, remaining |-> 0, limited |-> TRUE]
    ELSE [b |-> [b EXCEPT ![installId].count = @ + 1],
          remaining |-> Max0(limit - (b[installId].count + 1)), limited |-> FALSE]

\* getRemaining(installId)
getRemaining(b, installId, limit) ==
    IF installId \in DOMAIN b THEN Max0(limit - b[installId].count) ELSE limit

\* count one more quota decision (or admission) of key k in the current UTC day
Bump(h, k) == IF k \in DOMAIN h THEN [h EXCEPT ![k] = @ + 1] ELSE Put(h, k, 1)

Hits(h, k) == IF k \in DOMAIN h THEN h[k] ELSE 0

\* a response body without a remaining field
NoRemaining == 0 - 1

NoLimit == [remaining |-> 0, limited |-> FALSE]

\* an HTTP response; consumed: the handler called the quota ledger, which returned limit
Http(status, key, remaining, consumed, limit) ==
    [kind |-> "http", status |-> status, key |-> key, remaining |-> remaining,
     consumed |-> consumed, limit |-> limit]

\* the handler reached its first await and is suspended there
Await(key, limit) ==
    [kind |-> "await", status |-> 0, key |-> key, remaining |-> NoRemaining,
     consumed |-> TRUE, limit |-> limit]

\* the handlers validating the body before they call consumePoint
InstallStart_validatesFirst(installId, bodyOk) ==
    /\ prog = "install"
    /\ resp = NoResp
    /\ IF installId = ""
       THEN /\ resp' = Http(400, installId, NoRemaining, FALSE, NoLimit)
            /\ UNCHANGED <<buckets, reqs, today, admitted>>
       ELSE IF ~bodyOk
       THEN /\ resp' = Http(400, installId, NoRemaining, FALSE, NoLimit)
            /\ UNCHANGED <<buckets, reqs, today, admitted>>
       ELSE /\ Hits(today, installId) < MaxHits
            /\ LET r == consumePoint(buckets, installId, now, FREE_DAILY_LIMIT)
                   limit == [remaining |-> r.remaining, limited |-> r.limited] IN
               /\ buckets' = r.b
               /\ today' = Bump(today, installId)
               /\ IF limit.limited
                  THEN /\ resp' = Http(429, installId, 0, TRUE, limit)
                       /\ UNCHANGED <<reqs, admitted>>
                  ELSE /\ admitted' = Bump(admitted, installId)
                       /\ IF ~bodyOk
                          THEN /\ resp' = Http(400, installId, NoRemaining, TRUE, limit)
                               /\ UNCHANGED reqs
                          ELSE /\ BagCardinality(reqs) < MaxInFlight
                               /\ resp' = Await(installId, limit)
                               /\ reqs' = reqs (+) SetToBag({[key |-> installId,
                                                             limit |-> limit]})
    /\ UNCHANGED <<config, issued, fan, usage, now, store, rlStore, licenseDevices, arrived>>

\* POST /v1/compare-multi and POST /v1/compare up to their first await
InstallStart(installId, bodyOk) ==
    /\ prog = "install"
    /\ resp = NoResp
    /\ IF installId = ""
       THEN /\ resp' = Http(400, installId, NoRemaining, FALSE, NoLimit)
            /\ UNCHANGED <<buckets, reqs, today, admitted>>
       ELSE /\ Hits(today, installId) < MaxHits
            /\ LET r == consumePoint(buckets, installId, now, FREE_DAILY_LIMIT)
                   limit == [remaining |-> r.remaining, limited |-> r.limited] IN
               /\ buckets' = r.b
               /\ today' = Bump(today, installId)
               /\ IF limit.limited
                  THEN /\ resp' = Http(429, installId, 0, TRUE, limit)
                       /\ UNCHANGED <<reqs, admitted>>
                  ELSE /\ admitted' = Bump(admitted, installId)
                       /\ IF ~bodyOk
                          THEN /\ resp' = Http(400, installId, NoRemaining, TRUE, limit)
                               /\ UNCHANGED reqs
                          ELSE /\ BagCardinality(reqs) < MaxInFlight
                               /\ resp' = Await(installId, limit)
                               /\ reqs' = reqs (+) SetToBag({[key |-> installId,
                                                             limit |-> limit]})
    /\ UNCHANGED <<config, issued, fan, usage, now, store, rlStore, licenseDevices, arrived>>

\* the continuation after await Promise.all(tasks): res.json or the catch block
InstallFinish(r, threw) ==
    /\ prog = "install"
    /\ resp = NoResp
    /\ BagIn(r, reqs)
    /\ resp' = IF threw
               THEN Http(500, r.key, NoRemaining, FALSE, r.limit)
               ELSE Http(200, r.key, getRemaining(buckets, r.key, FREE_DAILY_LIMIT),
                         FALSE, r.limit)
    /\ reqs' = reqs (-) SetToBag({r})
    /\ UNCHANGED <<config, issued, fan, usage, now, buckets, store, rlStore, licenseDevices, today, admitted,
                   arrived>>

---------------------------------------------------------------------------
(* Request values shared by the middlewares *)

\* values of body.mode ("": the body has no mode)
Modes == {"real", "REAL", "sim", ""}

\* String.prototype.toLowerCase on the values of the model
toLowerCase(m) == IF m = "REAL" THEN "real" ELSE m

\* values of the X-User-Providers header ("": absent)
ProviderHeaders == {"", " ", "openai"}

\* String.prototype.trim on the values of the model
trim(h) == IF h = " " THEN "" ELSE h

\* the exchange of a request that went through a middleware chain.  status is
\* "next" (handed on), "throw" (an exception left the middleware) or the HTTP
\* status answered ("429", "402", "409"); mode is the mode the handler will read; counted says
\* whether a quota counter was incremented
Mw(status, mode, wantsReal, isPro, hasKeys, admin, bypassed, counted, req) ==
    [kind |-> "mw", status |-> status, mode |-> mode, wantsReal |-> wantsReal,
     isPro |-> isPro, hasKeys |-> hasKeys, admin |-> admin, bypassed |-> bypassed,
     counted |-> counted, req |-> req]

---------------------------------------------------------------------------
(* middleware/rateLimit.js (1-62) with unnamed/part_003 (proGuard.js) *)

BucketRequests ==
    [role : {"", "admin"}, pro : BOOLEAN, mode : Modes, providers : ProviderHeaders,
     dev : {"", "d1"}, ip : {"ip1"}]

\* hasUserProviders(req)
hasUserProviders(req) == req.providers # "" /\ trim(req.providers) # ""

\* requestHasRealPower(req): for an admin it runs "return next()" with no next in
\* scope, a ReferenceError
requestHasRealPower(req) ==
    IF req.role = "admin"
    THEN [threw |-> TRUE, value |-> FALSE]
    ELSE [threw |-> FALSE,
          value |-> toLowerCase(req.mode) = "real" /\ (req.pro \/ hasUserProviders(req))]

\* keyFromReq(req)
keyFromReq(req) ==
    IF req.dev # "" THEN req.dev ELSE IF req.ip # "" THEN req.ip ELSE "unknown"

\* todayResetAt(): 00:00:00 UTC of the next day
todayResetAt(t) == (utcDay(t) + 1) * DayLen

\* rateLimit(req, res, next) of the bucket version: [status, b, bypassed]
rateLimit_bucket(b, req, t, limit) ==
    LET power == requestHasRealPower(req)
        key == keyFromReq(req)
        b0 == IF key \notin DOMAIN b \/ t >= b[key].resetAt
              THEN Put(b, key, [count |-> 0, resetAt |-> todayResetAt(t)])
              ELSE b
    IN  IF power.threw THEN [status |-> "throw", b |-> b, bypassed |-> FALSE]
        ELSE IF power.value THEN [status |-> "next", b |-> b, bypassed |-> TRUE]
        ELSE IF req.role = "admin" THEN [status |-> "next", b |-> b, bypassed |-> TRUE]
        ELSE IF b0[key].count >= limit THEN [status |-> "429", b |-> b0, bypassed |-> FALSE]
        ELSE [status |-> "next", b |-> [b0 EXCEPT ![key].count = @ + 1],
              bypassed |-> FALSE]

\* proGuard(req, _res, next) of part_003: the body.mode it leaves
proGuard_part003(req) ==
    IF req.role = "admin" THEN req.mode
    ELSE IF toLowerCase(req.mode) = "real" /\ ~(req.pro \/ hasUserProviders(req))
    THEN "simulated"
    ELSE req.mode

\* whether a bucket count went up between two states of the buckets
Counted(b0, b1) ==
    \E k \in DOMAIN b1 : b1[k].count > (IF k \in DOMAIN b0 THEN b0[k].count ELSE 0)

\* one request through rateLimit -> proGuard
BucketRequest(req) ==
    /\ prog = "bucket"
    /\ resp = NoResp
    /\ LET rl == rateLimit_bucket(buckets, req, now, FREE_DAILY_LIMIT)
           mode == IF rl.status = "next" THEN proGuard_part003(req) ELSE req.mode
       IN  /\ buckets' = rl.b
           /\ resp' = Mw(rl.status, mode, toLowerCase(req.mode) = "real", req.pro,
                         hasUserProviders(req), req.role = "admin", rl.bypassed,
                         Counted(buckets, rl.b), req)
    /\ UNCHANGED <<config, issued, fan, usage, now, store, rlStore, licenseDevices, reqs, today, admitted,
                   arrived>>

---------------------------------------------------------------------------
(* middleware/authSoft.js, middleware/rateLimit.js (64-145), middleware/proGuard.js *)

\* bearer tokens.  present: the Authorization header starts with "Bearer ";
\* decodable: jwt.decode returns a payload; valid: the signature verifies under
\* JWT_SECRET and the token has not expired; sub, pro, keys: the payload's sub,
\* its isPro/pro/premium claim, and its providers/hasKeys claim; tier: its
\* tier/plan/role claim ("": none)
Token(present, decodable, valid, sub, pro, keys) ==
    [present |-> present, decodable |-> decodable, valid |-> valid, sub |-> sub,
     pro |-> pro, keys |-> keys, tier |-> ""]

\* a tier claim that is a JSON object with a toString member, {"toString": 1}
NoToString == "{toString:1}"

NoToken == Token(FALSE, FALSE, FALSE, "", FALSE, FALSE)

Tokens ==
    { NoToken,
      Token(TRUE, FALSE, FALSE, "", FALSE, FALSE),    \* not a JWT
      Token(TRUE, TRUE, TRUE, "u1", FALSE, FALSE),    \* signed, free
      Token(TRUE, TRUE, TRUE, "u1", TRUE, FALSE),     \* signed, pro
      Token(TRUE, TRUE, FALSE, "u1", TRUE, FALSE),    \* forged, claims pro
      Token(TRUE, TRUE, FALSE, "", FALSE, TRUE) }     \* forged, claims own keys

\* the headers X-User-Tier, X-User-Providers (or X-Providers) and X-Has-Keys
Headers(tier, providers, hasKeys) ==
    [tier |-> tier, providers |-> providers, hasKeys |-> hasKeys]

HeaderSets ==
    { Headers("", "", ""), Headers("pro", "", ""), Headers("", "openai", ""),
      Headers("", " ", ""), Headers("", "", "true"), Headers("", "", "0") }

\* values of the X-Debug-Bypass header ("": absent)
DebugHeaders == {"", "s3cret", "wrong"}

StoreRequests ==
    [mode : Modes, token : Tokens, hdr : HeaderSets, dbg : DebugHeaders, ip : {"ip1"}]

\* `anon:${ip}`
anonId(ip) == IF ip = "ip1" THEN "anon:ip1" ELSE "anon:0.0.0.0"

\* authSoft(req, _res, next): the req.state it leaves
authSoft(req) ==
    LET bodyMode == toLowerCase(req.mode)
        decoded == req.token.present /\ req.token.decodable
        userIdFromJwt == IF decoded THEN req.token.sub ELSE ""
        isProClaim == decoded /\ (req.token.tier = "pro" \/ req.token.pro)
        isProHeader == req.hdr.tier = "pro"
        providers == trim(req.hdr.providers)
        hasKeysHeader == req.hdr.hasKeys \in {"1", "true", "yes"}
        hasKeysJwt == decoded /\ req.token.keys
    IN  [mode |-> IF bodyMode = "real" THEN "real" ELSE "sim",
         userId |-> IF userIdFromJwt # "" THEN userIdFromJwt ELSE anonId(req.ip),
         isPro |-> isProClaim \/ isProHeader,
         hasKeys |-> hasKeysHeader \/ providers # "" \/ hasKeysJwt]

\* authSoft leaves by an exception: (payload.tier || ...).toString() is called on
\* a claim whose toString is not a function
authSoftThrows(req) ==
    req.token.present /\ req.token.decodable /\ req.token.tier = NoToString

\* the tokens of the requests sent to authSoft on its own
SoftTokens ==
    Tokens
    \cup { [Token(TRUE, TRUE, FALSE, sub, FALSE, FALSE) EXCEPT !.tier = tier] :
             sub \in {"", "u1"}, tier \in {"pro", NoToString} }

\* ip "": no x-forwarded-for header and no remote address
SoftRequests == [mode : Modes, token : SoftTokens, hdr : HeaderSets, ip : {"ip1", ""}]

\* one request through authSoft alone: nexts is the number of calls of next(),
\* sent says whether a response was sent (express answers 500 when a middleware
\* throws), state is req.state afterwards
SoftRequest(req) ==
    /\ prog = "soft"
    /\ resp = NoResp
    /\ resp' = IF authSoftThrows(req)
               THEN [kind |-> "soft", req |-> req, threw |-> TRUE, nexts |-> 0,
                     sent |-> TRUE,
                     state |-> [mode |-> authSoft(req).mode,
                                userId |-> authSoft(req).userId]]
               ELSE [kind |-> "soft", req |-> req, threw |-> FALSE, nexts |-> 1,
                     sent |-> FALSE, state |-> authSoft(req)]
    /\ UNCHANGED <<config, issued, fan, usage, now, buckets, store, rlStore, licenseDevices,
                   reqs, today, admitted, arrived>>

\* the counter of key k in a day-keyed store
Count(m, k) == IF k \in DOMAIN m THEN m[k] ELSE 0

\* the daily limit of rateLimit.js (120-138) and part_002 (20-34):
\* [status, store, key, remaining]
dailyLimit(m, st, t, limit) ==
    LET key == <<utcDay(t), st.userId>>
        count == Count(m, key) + 1
    IN  [status |-> IF count > limit THEN "429" ELSE "next",
         store |-> Put(m, key, count),
         bypassed |-> FALSE,
         key |-> "day-key",
         remaining |-> Max0(limit - count)]

Bypass(m, reason) ==
    [status |-> "next", store |-> m, bypassed |-> TRUE, key |-> reason,
     remaining |-> NoRemaining]

\* rateLimit that counts the request before it looks at the bypass rules
rateLimit_store_countsFirst(m, st, req, t, limit, secret, whitelist) ==
    LET d == dailyLimit(m, st, t, limit) IN
    IF secret # "" /\ req.dbg # "" /\ req.dbg = secret
    THEN Bypass(d.store, "debug-header")
    ELSE IF st.userId # "" /\ st.userId \in whitelist
    THEN Bypass(d.store, "whitelist")
    ELSE IF st.mode = "real" /\ (st.isPro \/ st.hasKeys)
    THEN Bypass(d.store, IF st.isPro THEN "real+pro" ELSE "real+keys")
    ELSE d

\* rateLimit(req, res, next) of rateLimit.js (80-139)
rateLimit_store(m, st, req, t, limit, secret, whitelist) ==
    IF secret # "" /\ req.dbg # "" /\ req.dbg = secret
    THEN Bypass(m, "debug-header")
    ELSE IF st.userId # "" /\ st.userId \in whitelist
    THEN Bypass(m, "whitelist")
    ELSE IF st.mode = "real" /\ (st.isPro \/ st.hasKeys)
    THEN Bypass(m, IF st.isPro THEN "real+pro" ELSE "real+keys")
    ELSE dailyLimit(m, st, t, limit)

\* rateLimit(req, res, next) of part_002 (10-35)
rateLimit_part002(m, st, t, limit) ==
    IF st.mode = "real" /\ (st.isPro \/ st.hasKeys)
    THEN Bypass(m, IF st.isPro THEN "real+pro" ELSE "real+keys")
    ELSE dailyLimit(m, st, t, limit)

\* proGuard that never downgrades
proGuard_keepsMode(st) == st.mode

\* proGuard(req, _res, next) of proGuard.js: the mode it leaves in req.state and body
proGuard(st) ==
    IF st.mode = "real" /\ ~(st.isPro \/ st.hasKeys) THEN "sim" ELSE st.mode

RECURSIVE SumOver(_, _)
SumOver(m, D) ==
    IF D = {} THEN 0
    ELSE LET k == CHOOSE x \in D : TRUE IN m[k] + SumOver(m, D \ {k})

\* the counts held by a store, added up
Total(m) == SumOver(m, DOMAIN m)

\* one request through authSoft -> rateLimit -> proGuard
StoreRequest(req) ==
    /\ prog \in {"store", "store2"}
    /\ resp = NoResp
    /\ \E st \in {authSoft(req)} :
       \E rl \in {IF prog = "store"
                  THEN rateLimit_store(store, st, req, now, FREE_DAILY_LIMIT,
                                       RL_DEBUG_SECRET, DEBUG_WHITELIST)
                  ELSE rateLimit_part002(store, st, now, FREE_DAILY_LIMIT)} :
           /\ rl.store # store => Total(store) < MaxHits
           /\ store' = rl.store
           /\ resp' = [rateLimitKey |-> rl.key, rateLimitRemaining |-> rl.remaining,
                        userId |-> st.userId]
                       @@ Mw(rl.status, IF rl.status = "next" THEN proGuard(st) ELSE st.mode,
                             st.mode = "real", st.isPro, st.hasKeys,
                             FALSE, rl.bypassed, rl.store # store, req)
    /\ UNCHANGED <<config, issued, fan, usage, now, buckets, rlStore, licenseDevices, reqs, today, admitted,
                   arrived>>

\* the store after the purge of the keys that do not start with today's prefix
purge(m, t) == [k \in {x \in DOMAIN m : x[1] = utcDay(t)} |-> m[k]]

\* the timer callback has run: before is the store it found
Swept(before) == [kind |-> "sweep", before |-> before]

\* a sweep that purges every key
Sweep_purgesAll ==
    /\ prog \in {"store", "store2"}
    /\ resp = NoResp
    /\ store' = EmptyMap
    /\ resp' = Swept(store)
    /\ UNCHANGED <<config, issued, fan, usage, now, buckets, rlStore, licenseDevices, reqs,
                   today, admitted, arrived>>

\* setInterval(..., 60 * 60 * 1000): purge the keys of other days
Sweep ==
    /\ prog \in {"store", "store2"}
    /\ resp = NoResp
    /\ store' = purge(store, now)
    /\ resp' = Swept(store)
    /\ UNCHANGED <<config, issued, fan, usage, now, buckets, rlStore, licenseDevices, reqs,
                   today, admitted, arrived>>

---------------------------------------------------------------------------
(* unnamed/part_007: the stub server, authSoft -> rateLimit -> proGuard -> handler *)

\* values of body.mode the stub is sent
StubModes == Modes \cup {"turbo"}

\* jwt: the Authorization header matches /^Bearer\s+eyJ/
StubRequests ==
    [mode : StubModes, jwt : BOOLEAN, dbg : DebugHeaders, ip : {"ip1", "ip2"}]

\* authSoft(req, _res, next) of part_007: req.state.mode, req.simulate, req.state.isPro
authSoft_stub(req, simulate) ==
    LET effMode == IF req.mode # "" THEN toLowerCase(req.mode)
                   ELSE IF simulate THEN "sim" ELSE "real"
    IN  [mode |-> effMode, simulate |-> effMode = "sim", isPro |-> req.jwt]

\* rlResetIfNewDay()
rlResetIfNewDay(rl, t) ==
    IF utcDay(t) # rl.day THEN [day |-> utcDay(t), hitsByKey |-> EmptyMap] ELSE rl

\* rateLimit of part_007 comparing the header with the secret without asking
\* whether either is set
rateLimit_stub_bareCompare(rl, req, t, limit, secret) ==
    LET rl0 == rlResetIfNewDay(rl, t)
        key == req.ip
        used == Count(rl0.hitsByKey, key)
    IN  IF req.dbg = secret
        THEN [status |-> "next", rl |-> rl0, bypassed |-> TRUE]
        ELSE IF used >= limit
        THEN [status |-> "429", rl |-> rl0, bypassed |-> FALSE]
        ELSE [status |-> "next",
              rl |-> [rl0 EXCEPT !.hitsByKey = Put(rl0.hitsByKey, key, used + 1)],
              bypassed |-> FALSE]

\* rateLimit(req, res, next) of part_007: [status, rl, bypassed]
rateLimit_stub(rl, req, t, limit, secret) ==
    LET rl0 == rlResetIfNewDay(rl, t)
        key == req.ip
        used == Count(rl0.hitsByKey, key)
    IN  IF secret # "" /\ req.dbg # "" /\ req.dbg = secret
        THEN [status |-> "next", rl |-> rl0, bypassed |-> TRUE]
        ELSE IF used >= limit
        THEN [status |-> "429", rl |-> rl0, bypassed |-> FALSE]
        ELSE [status |-> "next",
              rl |-> [rl0 EXCEPT !.hitsByKey = Put(rl0.hitsByKey, key, used + 1)],
              bypassed |-> FALSE]

\* proGuard(req, res, next) of part_007
proGuard_stub(st, bypassed) ==
    IF st.mode = "real" /\ ~bypassed /\ ~st.isPro THEN "402" ELSE "next"

\* the handler of POST /v1/compare-multi: the mode of the response it sends
stubHandler(req, st) ==
    LET mode == toLowerCase(IF req.mode # "" THEN req.mode ELSE st.mode)
    IN  IF st.simulate \/ mode = "sim" THEN "sim" ELSE "real"

\* one request through authSoft -> rateLimit -> proGuard -> handler
StubRequest(req) ==
    /\ prog = "stub"
    /\ resp = NoResp
    /\ LET st == authSoft_stub(req, SIMULATE)
           rl == rateLimit_stub(rlStore, req, now, FREE_DAILY_LIMIT, RL_DEBUG_SECRET)
           status == IF rl.status = "next" THEN proGuard_stub(st, rl.bypassed)
                     ELSE rl.status
       IN  /\ rlStore' = rl.rl
           /\ resp' = [served |-> IF status = "next" THEN stubHandler(req, st) ELSE "none"]
                      @@ Mw(status, st.mode, st.mode = "real", st.isPro, FALSE, FALSE,
                            rl.bypassed,
                            Count(rl.rl.hitsByKey, req.ip) >
                                Count(rlResetIfNewDay(rlStore, now).hitsByKey, req.ip),
                            req)
    /\ UNCHANGED <<config, issued, fan, usage, now, buckets, store, licenseDevices, reqs, today, admitted,
                   arrived>>

---------------------------------------------------------------------------
(* utils/jwt.js (signProToken, verifyToken, hmacHex, POST /activate) and
   middleware/authMiddleware.js *)

\* process.env.JWT_SECRET
JWT_SECRET == "dev_jwt_secret"

\* the keys a token can be signed with
SigningKeys == {JWT_SECRET, "other_secret"}

\* header.alg of a token
Algs == {"HS256", "HS512", "none"}

\* the model's value for a payload without exp
NoExp == 0 - 1

\* base.scope of signProToken
ProScope == {"pro", "neutral:real"}

\* the text of a bearer token.  form "garbage": not three base64url segments;
\* key: the secret its signature was made with; the remaining fields are its payload
Jwt(form, alg, key, exp, scope, plan, licenseId) ==
    [present |-> TRUE, form |-> form, alg |-> alg, key |-> key, exp |-> exp,
     scope |-> scope, plan |-> plan, licenseId |-> licenseId]

\* the empty string
EmptyToken ==
    [present |-> FALSE, form |-> "garbage", alg |-> "none", key |-> "", exp |-> NoExp,
     scope |-> {}, plan |-> "", licenseId |-> ""]

\* a string that is not a JWT
Garbage ==
    [present |-> TRUE, form |-> "garbage", alg |-> "none", key |-> "", exp |-> NoExp,
     scope |-> {}, plan |-> "", licenseId |-> ""]

\* the payload of a token
Payload(token) == [k \in DOMAIN token \ {"present", "form", "alg", "key"} |-> token[k]]

\* jwt.verify(token, secret, { algorithms }) at clock t: [threw, message] or
\* [threw, decoded]
jwt_verify(token, secret, algorithms, t) ==
    IF token.form # "jwt" THEN [threw |-> TRUE, message |-> "jwt malformed"]
    ELSE IF token.alg = "none" THEN [threw |-> TRUE, message |-> "jwt signature is required"]
    ELSE IF token.alg \notin algorithms THEN [threw |-> TRUE, message |-> "invalid algorithm"]
    ELSE IF token.key # secret THEN [threw |-> TRUE, message |-> "invalid signature"]
    ELSE IF token.exp # NoExp /\ t >= token.exp THEN [threw |-> TRUE, message |-> "jwt expired"]
    ELSE [threw |-> FALSE, decoded |-> Payload(token)]

\* verifyToken without the algorithms option
verifyToken_anyAlgorithm(token, t) ==
    LET r == jwt_verify(token, JWT_SECRET, Algs, t) IN
    IF r.threw THEN [ok |-> FALSE, error |-> r.message]
    ELSE [ok |-> TRUE, decoded |-> r.decoded]

\* verifyToken(token): {ok: true, decoded} or {ok: false, error}
verifyToken(token, t) ==
    LET r == jwt_verify(token, JWT_SECRET, {"HS256"}, t) IN
    IF r.threw THEN [ok |-> FALSE, error |-> r.message]
    ELSE [ok |-> TRUE, decoded |-> r.decoded]

\* the tokens a request can carry
AuthTokens ==
    {EmptyToken, Garbage}
    \cup { Jwt("jwt", alg, key, exp, scope, "pro", "L1") :
             alg \in Algs, key \in SigningKeys, exp \in {NoExp} \cup 1..MaxNow,
             scope \in {ProScope, {"basic"}} }

\* the form of the Authorization header
AuthSchemes == {"absent", "Bearer", "bearer", "bare", "Basic"}

AuthRequests == [scheme : AuthSchemes, token : AuthTokens]

\* auth.replace(/^Bearer\s+/i, ""): what requireAuth takes for the token
bearerToken(req) ==
    CASE req.scheme = "absent" -> EmptyToken
      [] req.scheme \in {"Bearer", "bearer", "bare"} -> req.token
      [] req.scheme = "Basic" -> Garbage

\* req.user when requireAuth did not set it
NoUser == [none |-> TRUE]

\* requireAuth(req, res, next) at clock t: status 0 when no response is sent
requireAuth(req, t) ==
    LET token == bearerToken(req)
        v == verifyToken(token, t)
    IN  IF ~token.present
        THEN [status |-> 401, code |-> "NO_TOKEN", next |-> FALSE, user |-> NoUser]
        ELSE IF ~v.ok
        THEN [status |-> 401, code |-> "INVALID_TOKEN", next |-> FALSE, user |-> NoUser]
        ELSE [status |-> 0, code |-> "", next |-> TRUE, user |-> v.decoded]

\* one request through requireAuth
AuthRequest(req) ==
    /\ prog = "auth"
    /\ resp = NoResp
    /\ resp' = [kind |-> "auth", req |-> req, token |-> bearerToken(req), at |-> now]
               @@ requireAuth(req, now)
    /\ UNCHANGED <<config, issued, fan, usage, now, buckets, store, rlStore, licenseDevices, reqs,
                   today, admitted, arrived>>

\* "30d" in ticks of the clock
ThirtyDays == 30 * DayLen

\* the payloads a caller can hand to signProToken
SignPayloads ==
    { [k \in D |-> full[k]] :
        D \in SUBSET {"scope", "plan", "licenseId"},
        full \in { [scope |-> {"admin"}, plan |-> "enterprise", licenseId |-> "L1"],
                   [scope |-> ProScope, plan |-> "pro", licenseId |-> "L2"] } }

\* opts.expiresIn in ticks; 0: not given
SignOpts == [expiresIn : {0, 1}]

\* signProToken(payload, opts) at clock t
signProToken(payload, opts, t) ==
    LET base == [scope |-> ProScope, plan |-> "pro"]
        merged == payload @@ base
        expiresIn == IF opts.expiresIn # 0 THEN opts.expiresIn ELSE ThirtyDays
    IN  [present |-> TRUE, form |-> "jwt", alg |-> "HS256", key |-> JWT_SECRET,
         exp |-> t + expiresIn] @@ merged

\* a call of signProToken
SignProToken(payload, opts) ==
    /\ prog = "auth"
    /\ resp = NoResp
    /\ resp' = [kind |-> "signed", payload |-> payload, opts |-> opts,
                token |-> signProToken(payload, opts, now)]
    /\ UNCHANGED <<config, issued, fan, usage, now, buckets, store, rlStore, licenseDevices, reqs,
                   today, admitted, arrived>>

\* license keys a client can send
\* a req.body.key that is not a string (JSON number 123)
NonStringKey == "<123>"

LicenseKeys == {"", "MIC-PRO-AAAA", "MIC-PRO-BBBB", "MIC-PRO-XXXX", NonStringKey}

\* createHmac(...).update(input) accepts input: it is a string
isString(input) == input # NonStringKey

\* hmacHex(input): lower-case hex digest, one per input
hmacHex(input) ==
    CASE input = "MIC-PRO-AAAA" -> "a1a1"
      [] input = "MIC-PRO-BBBB" -> "b2b2"
      [] input = "MIC-PRO-XXXX" -> "c3c3"
      [] OTHER -> "0000"

\* process.env.ALLOWLIST_KEYS and ALLOWLIST_HASHED_KEYS
allowPlain == {"MIC-PRO-AAAA"}

allowHmac == {"b2b2"}

\* "lic_" + hmacHex(key).slice(0, 16)
licenseIdOf(key) ==
    CASE hmacHex(key) = "a1a1" -> "lic_a1a1"
      [] hmacHex(key) = "b2b2" -> "lic_b2b2"
      [] hmacHex(key) = "c3c3" -> "lic_c3c3"
      [] OTHER -> "lic_0000"

\* req.body of POST /activate; deviceId 0: not given; scope and plan: fields the
\* handler does not read
ActivateBodies ==
    [key : LicenseKeys, deviceId : {0, 1}, scope : {{}, {"admin"}},
     plan : {"", "enterprise"}]

\* the response of POST /activate to a key the handler accepted
issue(licenseId, deviceId, t) ==
    [status |-> 200, code |-> "",
     token |-> signProToken([licenseId |-> licenseId, deviceId |-> deviceId],
                            [expiresIn |-> ThirtyDays], t),
     plan |-> "pro", scope |-> ProScope]

\* POST /activate with the licenseId derived from the deviceId as well as the key
activate_licensePerDevice(body, t) ==
    LET licenseId == IF body.deviceId = 0 THEN licenseIdOf(body.key) ELSE "lic_dev" IN
    IF body.key = ""
    THEN [status |-> 400, code |-> "NO_KEY", token |-> EmptyToken, plan |-> "", scope |-> {}]
    ELSE IF body.key \in allowPlain
    THEN issue(licenseId, body.deviceId, t)
    ELSE IF ~isString(body.key)
    THEN [status |-> 500, code |-> "", token |-> EmptyToken, plan |-> "", scope |-> {}]
    ELSE IF hmacHex(body.key) \notin allowHmac
    THEN [status |-> 400, code |-> "INVALID_KEY", token |-> EmptyToken, plan |-> "",
          scope |-> {}]
    ELSE issue(licenseId, body.deviceId, t)

\* POST /activate at clock t.  status 500: hmacHex threw and express's error
\* handler answered
activate(body, t) ==
    IF body.key = ""
    THEN [status |-> 400, code |-> "NO_KEY", token |-> EmptyToken, plan |-> "", scope |-> {}]
    ELSE IF body.key \in allowPlain
    THEN issue(licenseIdOf(body.key), body.deviceId, t)
    ELSE IF ~isString(body.key)
    THEN [status |-> 500, code |-> "", token |-> EmptyToken, plan |-> "", scope |-> {}]
    ELSE IF hmacHex(body.key) \notin allowHmac
    THEN [status |-> 400, code |-> "INVALID_KEY", token |-> EmptyToken, plan |-> "",
          scope |-> {}]
    ELSE issue(licenseIdOf(body.key), body.deviceId, t)

\* the tokens issued to a key so far
IssuedTo(m, key) == IF key \in DOMAIN m THEN m[key] ELSE {}

\* one POST /activate
Activate(body) ==
    /\ prog = "auth"
    /\ resp = NoResp
    /\ LET a == activate(body, now) IN
       /\ resp' = [kind |-> "activate", body |-> body] @@ a
       /\ issued' = IF a.status = 200
                    THEN Put(issued, body.key,
                             IssuedTo(issued, body.key)
                             \cup {[licenseId |-> a.token.licenseId,
                                    deviceId |-> a.token.deviceId]})
                    ELSE issued
    /\ UNCHANGED <<config, fan, usage, now, buckets, store, rlStore, licenseDevices, reqs,
                   today, admitted, arrived>>

\* GET /status: the payload is read from the second segment of the token, the
\* signature and the expiry are not looked at
getStatus(req) ==
    LET token == bearerToken(req)
        payload == Payload(token)
    IN  IF ~token.present
        THEN [status |-> 401, ok |-> FALSE, code |-> "NO_TOKEN", plan |-> "", scope |-> {},
              licenseId |-> ""]
        ELSE IF token.form # "jwt"
        THEN [status |-> 401, ok |-> FALSE, code |-> "INVALID_TOKEN", plan |-> "",
              scope |-> {}, licenseId |-> ""]
        ELSE [status |-> 200, ok |-> TRUE, code |-> "",
              plan |-> IF payload.plan # "" THEN payload.plan ELSE "pro",
              scope |-> payload.scope, licenseId |-> payload.licenseId]

\* one GET /status
StatusRequest(req) ==
    /\ prog = "auth"
    /\ resp = NoResp
    /\ resp' = [kind |-> "status", req |-> req, token |-> bearerToken(req), at |-> now]
               @@ getStatus(req)
    /\ UNCHANGED <<config, issued, fan, usage, now, buckets, store, rlStore, licenseDevices,
                   reqs, today, admitted, arrived>>

---------------------------------------------------------------------------
(* middleware/realModeGuard.js *)

\* device ids of the model
NDevices == 3

Devices == 1..NDevices

\* the model's value for a request without X-Device-Id
NoDevice == 0

Licenses == {"L1", "L2"}

\* bearer tokens: valid (signed with JWT_SECRET), the scope and the licenseId of the
\* payload
GuardToken(present, valid, scope, licenseId) ==
    [present |-> present, form |-> "jwt", alg |-> "HS256",
     key |-> IF valid THEN JWT_SECRET ELSE "other_secret", exp |-> NoExp,
     scope |-> scope, plan |-> "pro", licenseId |-> licenseId]

GuardTokens ==
    { GuardToken(FALSE, FALSE, {}, ""),
      GuardToken(TRUE, FALSE, ProScope, "L1"),     \* forged
      GuardToken(TRUE, TRUE, {"basic"}, "L1"),     \* signed, scope without real
      GuardToken(TRUE, TRUE, ProScope, ""),        \* signed, no licenseId
      GuardToken(TRUE, TRUE, ProScope, "L1"),
      GuardToken(TRUE, TRUE, {"neutral:real"}, "L2") }

GuardRequests ==
    [method : {"POST"}, mode : Modes, providers : ProviderHeaders, token : GuardTokens,
     dev : Devices \cup {NoDevice}]
    \cup
    [method : {"GET"}, mode : {"real"}, providers : {""},
     token : {GuardToken(TRUE, TRUE, ProScope, "L1")}, dev : Devices]

\* allowByUserProvidedKeys(req)
allowByUserProvidedKeys(req) == trim(req.providers) # ""

\* tokenAllowsReal(decoded)
tokenAllowsReal(decoded) == "pro" \in decoded.scope \/ "neutral:real" \in decoded.scope

\* the device set of a license
DeviceSet(ld, licenseId) == IF licenseId \in DOMAIN ld THEN ld[licenseId] ELSE {}

\* deviceAllowed with the size test off by one (> for >=)
deviceAllowed_offByOne(ld, decoded, deviceId, max) ==
    LET set == DeviceSet(ld, decoded.licenseId) IN
    IF decoded.licenseId = "" \/ deviceId = NoDevice THEN [ok |-> TRUE, ld |-> ld]
    ELSE IF deviceId \notin set /\ Cardinality(set) > max THEN [ok |-> FALSE, ld |-> ld]
    ELSE IF deviceId \notin set
    THEN [ok |-> TRUE, ld |-> Put(ld, decoded.licenseId, set \cup {deviceId})]
    ELSE [ok |-> TRUE, ld |-> ld]

\* deviceAllowed that makes room in a full set by dropping its devices
deviceAllowed_evicts(ld, decoded, deviceId, max) ==
    LET set == DeviceSet(ld, decoded.licenseId) IN
    IF decoded.licenseId = "" \/ deviceId = NoDevice THEN [ok |-> TRUE, ld |-> ld]
    ELSE IF deviceId \notin set /\ Cardinality(set) >= max
    THEN [ok |-> TRUE, ld |-> Put(ld, decoded.licenseId, {deviceId})]
    ELSE IF deviceId \notin set
    THEN [ok |-> TRUE, ld |-> Put(ld, decoded.licenseId, set \cup {deviceId})]
    ELSE [ok |-> TRUE, ld |-> ld]

\* deviceAllowed(decoded, deviceId): [ok, ld: the new licenseDevices]
deviceAllowed(ld, decoded, deviceId, max) ==
    LET set == DeviceSet(ld, decoded.licenseId) IN
    IF decoded.licenseId = "" \/ deviceId = NoDevice THEN [ok |-> TRUE, ld |-> ld]
    ELSE IF deviceId \notin set /\ Cardinality(set) >= max THEN [ok |-> FALSE, ld |-> ld]
    ELSE IF deviceId \notin set
    THEN [ok |-> TRUE, ld |-> Put(ld, decoded.licenseId, set \cup {deviceId})]
    ELSE [ok |-> TRUE, ld |-> ld]

\* realModeGuard that registers the device of the decoded payload before the token
\* is verified
realModeGuard_registersFirst(ld, req, max, t) ==
    LET v == verifyToken(req.token, t)
        d == deviceAllowed(ld, req.token, req.dev, max)
    IN  IF req.method # "POST" \/ toLowerCase(req.mode) # "real"
        THEN [status |-> "next", mode |-> req.mode, ld |-> ld, checked |-> FALSE]
        ELSE IF allowByUserProvidedKeys(req)
        THEN [status |-> "rateLimitReal", mode |-> req.mode, ld |-> ld, checked |-> FALSE]
        ELSE IF ~req.token.present
        THEN [status |-> "next", mode |-> "simulated", ld |-> ld, checked |-> FALSE]
        ELSE IF ~v.ok \/ ~tokenAllowsReal(v.decoded)
        THEN [status |-> "next", mode |-> "simulated", ld |-> d.ld, checked |-> FALSE]
        ELSE IF ~d.ok
        THEN [status |-> "409", mode |-> req.mode, ld |-> ld, checked |-> TRUE]
        ELSE [status |-> "rateLimitReal", mode |-> req.mode, ld |-> d.ld, checked |-> TRUE]

\* realModeGuard(req, res, next): [status, mode, ld, checked].  status
\* "rateLimitReal": the request is handed to rateLimitReal(req, res, next) as a
\* real request; checked: deviceAllowed was called
realModeGuard(ld, req, max, t) ==
    LET v == verifyToken(req.token, t)
        d == deviceAllowed(ld, v.decoded, req.dev, max)
    IN  IF req.method # "POST" \/ toLowerCase(req.mode) # "real"
        THEN [status |-> "next", mode |-> req.mode, ld |-> ld, checked |-> FALSE]
        ELSE IF allowByUserProvidedKeys(req)
        THEN [status |-> "rateLimitReal", mode |-> req.mode, ld |-> ld, checked |-> FALSE]
        ELSE IF ~req.token.present \/ ~v.ok \/ ~tokenAllowsReal(v.decoded)
        THEN [status |-> "next", mode |-> "simulated", ld |-> ld, checked |-> FALSE]
        ELSE IF ~d.ok
        THEN [status |-> "409", mode |-> req.mode, ld |-> ld, checked |-> TRUE]
        ELSE [status |-> "rateLimitReal", mode |-> req.mode, ld |-> d.ld, checked |-> TRUE]

\* history: the first max distinct device ids of each license to reach the device
\* check
Arrive(a, licenseId, deviceId, max) ==
    IF licenseId = "" \/ deviceId = NoDevice THEN a
    ELSE IF deviceId \in DeviceSet(a, licenseId) \/ Cardinality(DeviceSet(a, licenseId)) >= max
    THEN a
    ELSE Put(a, licenseId, DeviceSet(a, licenseId) \cup {deviceId})

\* one request through realModeGuard
GuardRequest(req) ==
    /\ prog = "guard"
    /\ resp = NoResp
    /\ LET g == realModeGuard(licenseDevices, req, DEVICE_MAX, now) IN
       /\ licenseDevices' = g.ld
       /\ arrived' = IF g.checked
                     THEN Arrive(arrived, req.token.licenseId, req.dev, DEVICE_MAX)
                     ELSE arrived
       /\ resp' = [checked |-> g.checked]
                  @@ Mw(g.status, g.mode,
                        req.method = "POST" /\ toLowerCase(req.mode) = "real",
                        req.token.present /\ verifyToken(req.token, now).ok
                          /\ tokenAllowsReal(req.token),
                        allowByUserProvidedKeys(req), FALSE, FALSE, FALSE, req)
    /\ UNCHANGED <<config, issued, fan, usage, now, buckets, store, rlStore, reqs, today, admitted>>

---------------------------------------------------------------------------
(* The multi-provider handlers: server.js (233-291), part_009 (461-517),
   part_004 (72-92), part_005 (64-95) *)

\* const PROVIDERS
PROVIDERS == <<"openai", "claude", "gemini">>

KnownProviders == {PROVIDERS[i] : i \in DOMAIN PROVIDERS}

\* the provider ids a request can name
ProviderIds == KnownProviders \cup {"bogus"}

RECURSIVE SeqsUpTo(_, _)
SeqsUpTo(S, n) ==
    IF n = 0 THEN {<<>>}
    ELSE LET shorter == SeqsUpTo(S, n - 1)
         IN  shorter \cup {Append(q, x) : q \in shorter, x \in S}

\* body of POST /v1/compare-multi: has says whether the provider list (providers,
\* models) is an array, prompt whether prompt is a non-empty string
FanRequests ==
    [has : {TRUE}, providers : SeqsUpTo(ProviderIds, MaxProviders), prompt : BOOLEAN]
    \cup [has : {FALSE}, providers : {<<>>}, prompt : {TRUE}]

\* the timeout handed to withTimeout
GeminiTimeoutMs == 45000
OtherTimeoutMs == 35000

\* fetchWithTimeout(url, options, timeoutMs = 20000)
FetchTimeoutMs == 20000

\* timeout of the task of provider p (0: the call has no timer)
timeoutMs(pg, p) ==
    IF pg = "multi" THEN (IF p = "gemini" THEN GeminiTimeoutMs ELSE OtherTimeoutMs)
    ELSE IF pg = "multi9" THEN OtherTimeoutMs
    ELSE IF pg = "compare9" THEN FetchTimeoutMs
    ELSE 0

\* one provider task.  call: the HTTP call ("none": not made, "inflight", "done",
\* "failed", "aborted"); rec: the record of the task ("none": not settled, "ok",
\* "error"); timer: the setTimeout of withTimeout ("none", "armed", "fired");
\* atGone: the call was in flight when the client disconnected
Task(provider, call, rec, timer) ==
    [provider |-> provider, call |-> call, rec |-> rec, timer |-> timer, atGone |-> FALSE,
     nth |-> 0]

\* the number of tasks that have settled
settled(tasks) == Cardinality({j \in DOMAIN tasks : tasks[j].rec # "none"})

\* providers.map(toLowerCase).filter(PROVIDERS.includes)
normalized(providers) == SelectSeq(providers, LAMBDA x : x \in KnownProviders)

\* the members of a sequence
Range(q) == {q[i] : i \in DOMAIN q}

\* the tasks a handler creates before its first await; <<>>: the request is
\* answered 400
startTasks(pg, req) ==
    IF pg \in {"multi", "multi9"}
    THEN IF ~req.has \/ Len(req.providers) = 0 \/ ~req.prompt THEN <<>>
         ELSE [i \in DOMAIN normalized(req.providers) |->
                  Task(normalized(req.providers)[i], "inflight", "none", "armed")]
    ELSE IF pg = "fan4"
    THEN IF ~req.prompt \/ ~req.has \/ Len(req.providers) = 0 THEN <<>>
         ELSE [i \in DOMAIN req.providers |->
                  IF req.providers[i] \in KnownProviders
                  THEN Task(req.providers[i], "inflight", "none", "none")
                  ELSE Task(req.providers[i], "none", "ok", "none")]
    ELSE \* "seq5"
         IF ~req.prompt THEN <<>>
         ELSE LET want == IF req.has /\ Len(req.providers) > 0
                          THEN Range(req.providers) ELSE KnownProviders
                  order == SelectSeq(PROVIDERS, LAMBDA x : x \in want)
              IN  [i \in DOMAIN order |->
                      Task(order[i], IF i = 1 THEN "inflight" ELSE "none", "none", "none")]

\* whether the request passes the validation of the handler
validated(pg, req) ==
    IF pg \in {"multi", "multi9"}
    THEN req.has /\ Len(req.providers) > 0 /\ Len(normalized(req.providers)) > 0
         /\ req.prompt
    ELSE IF pg = "fan4" THEN req.prompt /\ req.has /\ Len(req.providers) > 0
    ELSE req.prompt

\* the response of a comparison handler: results holds one [provider, ok] per
\* result entry, tasks the provider tasks when it was sent
FanResp(status, results, tasks, req, gone) ==
    [kind |-> "fan", status |-> status, results |-> results, tasks |-> tasks,
     req |-> req, gone |-> gone]

RECURSIVE Dedup(_)
\* Object.fromEntries: one key per distinct provider, in order of first insertion
Dedup(q) ==
    IF q = <<>> THEN <<>>
    ELSE LET init == Dedup(SubSeq(q, 1, Len(q) - 1))
         IN  IF q[Len(q)] \in Range(init) THEN init ELSE Append(init, q[Len(q)])

\* the result entries pushed as each task settles
results_completionOrder(pg, tasks) ==
    LET before(a, b) == \/ tasks[a].nth < tasks[b].nth
                        \/ tasks[a].nth = tasks[b].nth /\ a < b
        byNth == CHOOSE f \in [DOMAIN tasks -> DOMAIN tasks] :
                    \A a, b \in DOMAIN tasks : a < b => before(f[a], f[b])
    IN  [i \in DOMAIN tasks |->
            [provider |-> tasks[byNth[i]].provider, ok |-> tasks[byNth[i]].rec = "ok"]]

\* the result entries of the success response
results(pg, tasks) ==
    IF pg \in {"multi", "multi9"}
    THEN [i \in DOMAIN tasks |-> [provider |-> tasks[i].provider, ok |-> tasks[i].rec = "ok"]]
    ELSE LET keys == Dedup([i \in DOMAIN tasks |-> tasks[i].provider])
         IN  [i \in DOMAIN keys |-> [provider |-> keys[i], ok |-> TRUE]]

FanProgs == {"multi", "multi9", "fan4", "seq5"}

\* the handlers whose try block turns a rejected provider call into a 500
failsWhole(pg) == pg \in {"fan4", "seq5"}

\* the handler goes on after a step that left the tasks as given: it answers 500
\* when a rejection reached its catch, the success response when every task has
\* settled (await Promise.all), and stays suspended otherwise
Continue(req, age, gone, tasks) ==
    IF failsWhole(prog) /\ \E i \in DOMAIN tasks : tasks[i].rec = "error"
    THEN /\ resp' = FanResp(500, <<>>, tasks, req, gone)
         /\ fan' = NoFan
    ELSE IF \A i \in DOMAIN tasks : tasks[i].rec # "none"
    THEN /\ resp' = FanResp(200, results(prog, tasks), tasks, req, gone)
         /\ fan' = NoFan
    ELSE /\ fan' = [phase |-> "run", req |-> req, age |-> age, gone |-> gone,
                    tasks |-> tasks]
         /\ UNCHANGED resp

FanFrame ==
    UNCHANGED <<config, issued, now, buckets, store, rlStore, licenseDevices, reqs, today,
                admitted, arrived, usage>>

\* POST /v1/compare-multi arrives: validation, then every task runs up to its
\* first await
FanReceive(req) ==
    /\ prog \in FanProgs
    /\ resp = NoResp /\ fan = NoFan
    /\ IF ~validated(prog, req)
       THEN resp' = FanResp(400, <<>>, <<>>, req, FALSE) /\ UNCHANGED fan
       ELSE Continue(req, 0, FALSE, startTasks(prog, req))
    /\ FanFrame

\* the call of task i in part_005 is made when the await of task i - 1 returned
startNext(tasks, i) ==
    IF prog = "seq5" /\ i < Len(tasks)
    THEN [tasks EXCEPT ![i + 1].call = "inflight"]
    ELSE tasks

\* the provider of task i answers (ok) or its call fails
ProviderAnswers(i, ok) ==
    /\ prog \in FanProgs
    /\ resp = NoResp /\ fan.phase = "run"
    /\ i \in DOMAIN fan.tasks
    /\ fan.tasks[i].call = "inflight"
    /\ LET t1 == [fan.tasks EXCEPT ![i].call = IF ok THEN "done" ELSE "failed",
                                   ![i].rec = IF ok THEN "ok" ELSE "error",
                                   ![i].nth = settled(fan.tasks) + 1]
       IN  Continue(fan.req, fan.age, fan.gone, IF ok THEN startNext(t1, i) ELSE t1)
    /\ FanFrame

\* whether the timer of task i aborts the call of task j: each task of server.js
\* has its own AbortController, the tasks of part_009 share one
abortsCall(pg, i, j) == IF pg = "multi9" THEN TRUE ELSE i = j

\* the setTimeout of withTimeout of task i fires: abort, then reject
TimerFires(i) ==
    /\ prog \in FanProgs
    /\ resp = NoResp /\ fan.phase = "run"
    /\ i \in DOMAIN fan.tasks
    /\ fan.tasks[i].timer = "armed"
    /\ fan.age * TickMs >= timeoutMs(prog, fan.tasks[i].provider)
    /\ LET hit(j) == abortsCall(prog, i, j) /\ fan.tasks[j].call = "inflight"
           t1 == [j \in DOMAIN fan.tasks |->
                    [fan.tasks[j] EXCEPT
                        !.call = IF hit(j) THEN "aborted" ELSE @,
                        !.rec = IF @ = "none" /\ (j = i \/ hit(j)) THEN "error" ELSE @,
                        !.nth = IF fan.tasks[j].rec = "none" /\ (j = i \/ hit(j))
                                THEN settled(fan.tasks) + 1 ELSE @,
                        !.timer = IF j = i THEN "fired" ELSE @]]
       IN  Continue(fan.req, fan.age, fan.gone, t1)
    /\ FanFrame

\* time passes for the request in progress; a timer that is due fires first
FanTick ==
    /\ prog \in FanProgs \cup {"compare9", "compare6"}
    /\ resp = NoResp /\ fan.phase \in {"run", "summary"}
    /\ fan.age < MaxAge
    /\ \A i \in DOMAIN fan.tasks :
          fan.tasks[i].timer = "armed" =>
              fan.age * TickMs < timeoutMs(prog, fan.tasks[i].provider)
    /\ fan' = [fan EXCEPT !.age = @ + 1]
    /\ UNCHANGED resp
    /\ FanFrame

\* the client closes the connection; no handler listens for it
ClientCloses ==
    /\ prog \in FanProgs
    /\ resp = NoResp /\ fan.phase = "run"
    /\ ~fan.gone
    /\ fan' = [fan EXCEPT !.gone = TRUE,
                          !.tasks = [j \in DOMAIN fan.tasks |->
                                       [fan.tasks[j] EXCEPT
                                           !.atGone = fan.tasks[j].call = "inflight"]]]
    /\ UNCHANGED resp
    /\ FanFrame

---------------------------------------------------------------------------
(* POST /compare: part_009 (34-178) and part_006 (64-109) *)

CompareProgs == {"compare9", "compare6"}

\* the x-app-key values of the model; USERS_JSON maps the last two to their plan
AppKeys == {"", "demo-free", "demo-pro"}

\* body and key of POST /compare.  has: the body has a providers object;
\* providers: the provider names whose flag is truthy
CompareRequests ==
    [key : AppKeys, prompt : BOOLEAN, doSummary : BOOLEAN, has : {TRUE},
     providers : SUBSET {"openai", "gemini"} \cup {{"openai", "gemini", "claude"}}]
    \cup [key : AppKeys, prompt : BOOLEAN, doSummary : BOOLEAN, has : {FALSE},
          providers : {{}}]

\* getPlanFromToken(token)
getPlanFromToken(token) ==
    IF token = "demo-pro" THEN "pro" ELSE "free"

\* the JSON value of Infinity
Infinity == 0 - 2

\* checkAndCountQuota counting only after the handler's calls: the ledger is not
\* written
checkAndCountQuota_countsLater(u, token, plan, t, quota) ==
    LET key == <<IF token = "" THEN "anon" ELSE token, utcDay(t)>>
        count == Count(u, key)
    IN  IF plan = "free" /\ count >= quota
        THEN [ok |-> FALSE, remaining |-> 0, usage |-> u]
        ELSE [ok |-> TRUE,
              remaining |-> IF plan = "free" THEN Max0(quota - (count + 1)) ELSE Infinity,
              usage |-> u]

\* checkAndCountQuota(token, plan): [ok, remaining, usage]
checkAndCountQuota(u, token, plan, t, quota) ==
    LET key == <<IF token = "" THEN "anon" ELSE token, utcDay(t)>>
        count == Count(u, key)
    IN  IF plan = "free" /\ count >= quota
        THEN [ok |-> FALSE, remaining |-> 0, usage |-> u]
        ELSE [ok |-> TRUE,
              remaining |-> IF plan = "free" THEN Max0(quota - (count + 1)) ELSE Infinity,
              usage |-> Put(u, key, count + 1)]

\* enforcePlan(plan, providers, doSummary) with allowSummary as a mutant would
\* have it: the plan is not consulted
enforcePlan_ignoresPlan(plan, providers, doSummary, maxProviders, freeAllowSummary) ==
    LET ordered == <<"openai", "gemini">>
        selected == SelectSeq(ordered, LAMBDA x : x \in providers)
    IN  [enforced |-> IF plan = "free" /\ Len(selected) > maxProviders
                      THEN SubSeq(selected, 1, maxProviders) ELSE selected,
         allowSummary |-> doSummary]

\* enforcePlan(plan, providers, doSummary): enforced as the list of the allowed
\* providers
enforcePlan(plan, providers, doSummary, maxProviders, freeAllowSummary) ==
    LET ordered == <<"openai", "gemini">>
        selected == SelectSeq(ordered, LAMBDA x : x \in providers)
    IN  [enforced |-> IF plan = "free" /\ Len(selected) > maxProviders
                      THEN SubSeq(selected, 1, maxProviders) ELSE selected,
         allowSummary |-> IF plan = "pro" THEN doSummary
                          ELSE freeAllowSummary /\ doSummary]

\* the providers object after the default { openai:true, gemini:true }
providersOf(req) == IF req.has THEN req.providers ELSE {"openai", "gemini"}

\* the plan decisions of the handler; part_006 has no plan
planOf(pg, req) ==
    IF pg = "compare9"
    THEN enforcePlan(getPlanFromToken(req.key), providersOf(req), req.doSummary,
                     FREE_MAX_PROVIDERS, FREE_ALLOW_SUMMARY)
    ELSE [enforced |-> SelectSeq(<<"openai", "gemini">>, LAMBDA x : x \in providersOf(req)),
          allowSummary |-> req.doSummary]

\* the timer of a call: fetchWithTimeout in part_009, none in part_006
callTimer(pg) == IF pg = "compare9" THEN "armed" ELSE "none"

FallbackSummary == "No se pudo generar resumen."

\* a summary call that throws reaches the catch of the handler
summaryOf_throws(call) ==
    IF call = "done" THEN [status |-> 200, summary |-> "text"]
    ELSE IF call = "none" THEN [status |-> 200, summary |-> ""]
    ELSE [status |-> 500, summary |-> ""]

\* the status and the summary field the handler ends with, given the state of
\* the summary call ("none": not made)
summaryOf(call) ==
    IF call = "done" THEN [status |-> 200, summary |-> "text"]
    ELSE IF call = "none" THEN [status |-> 200, summary |-> ""]
    ELSE [status |-> 200, summary |-> FallbackSummary]

\* the response of POST /compare
CompareResp(status, f, summaryCall, summary) ==
    [kind |-> "compare", status |-> status, req |-> f.req, plan |-> f.plan,
     remaining |-> f.remaining, enforced |-> f.enforced, results |-> f.results,
     allowSummary |-> f.allowSummary, summaryCall |-> summaryCall, summary |-> summary]

\* the handler goes on once Promise.all(tasks) has resolved: the summary call,
\* or the response
AfterTasks(f) ==
    IF f.allowSummary /\ Len(f.results) > 0
    THEN /\ fan' = [f EXCEPT !.phase = "summary", !.age = 0,
                             !.tasks = <<Task("gemini", "inflight", "none", callTimer(prog))>>]
         /\ UNCHANGED resp
    ELSE /\ resp' = CompareResp(summaryOf("none").status, f, "none", summaryOf("none").summary)
         /\ fan' = NoFan

CompareContinue(f) ==
    IF \A i \in DOMAIN f.tasks : f.tasks[i].rec # "none"
    THEN AfterTasks(f)
    ELSE fan' = f /\ UNCHANGED resp

CompareFrame ==
    UNCHANGED <<config, issued, now, buckets, store, rlStore, licenseDevices, reqs, today,
                admitted, arrived>>

\* POST /compare arrives: plan, quota, validation, then every call is made
CompareReceive(req) ==
    /\ prog \in CompareProgs
    /\ resp = NoResp /\ fan = NoFan
    /\ \E q \in {IF prog = "compare9"
                 THEN checkAndCountQuota(usage, req.key, getPlanFromToken(req.key), now,
                                         FREE_DAILY_LIMIT)
                 ELSE [ok |-> TRUE, remaining |-> Infinity, usage |-> usage]} :
       \E e \in {planOf(prog, req)} :
       LET f == [phase |-> "run", req |-> req, age |-> 0, gone |-> FALSE,
                 tasks |-> [i \in DOMAIN e.enforced |->
                              Task(e.enforced[i], "inflight", "none", callTimer(prog))],
                 results |-> <<>>,
                 plan |-> IF prog = "compare9" THEN getPlanFromToken(req.key) ELSE "none",
                 remaining |-> q.remaining, enforced |-> e.enforced,
                 allowSummary |-> e.allowSummary]
           f0 == [f EXCEPT !.tasks = <<>>, !.enforced = <<>>]
       IN  /\ q.usage # usage => Total(usage) < MaxHits
           /\ usage' = q.usage
           /\ IF ~q.ok THEN resp' = CompareResp(429, f0, "none", "") /\ UNCHANGED fan
              ELSE IF ~req.prompt
              THEN resp' = CompareResp(400, f0, "none", "") /\ UNCHANGED fan
              ELSE CompareContinue(f)
    /\ CompareFrame

\* the provider of task i answers (ok) or its call fails: .then / .catch push the
\* record, fetchWithTimeout clears its timer
CompareAnswers(i, ok) ==
    /\ prog \in CompareProgs
    /\ resp = NoResp /\ fan.phase = "run"
    /\ i \in DOMAIN fan.tasks
    /\ fan.tasks[i].call = "inflight"
    /\ CompareContinue(
          [fan EXCEPT !.tasks[i].call = IF ok THEN "done" ELSE "failed",
                      !.tasks[i].rec = IF ok THEN "ok" ELSE "error",
                      !.tasks[i].timer = "none",
                      !.results = Append(@, [provider |-> fan.tasks[i].provider, ok |-> ok])])
    /\ UNCHANGED usage
    /\ CompareFrame

\* the timer of fetchWithTimeout of task i fires: controller.abort("timeout")
CompareTimer(i) ==
    /\ prog \in CompareProgs
    /\ resp = NoResp /\ fan.phase = "run"
    /\ i \in DOMAIN fan.tasks
    /\ fan.tasks[i].timer = "armed"
    /\ fan.age * TickMs >= timeoutMs(prog, fan.tasks[i].provider)
    /\ CompareContinue(
          [fan EXCEPT !.tasks[i].call = "aborted",
                      !.tasks[i].rec = "error",
                      !.tasks[i].timer = "fired",
                      !.results = Append(@, [provider |-> fan.tasks[i].provider,
                                             ok |-> FALSE])])
    /\ UNCHANGED usage
    /\ CompareFrame

\* the summary call ends: done (ok), failed, or aborted by its timer
SummaryEnds(call) ==
    /\ prog \in CompareProgs
    /\ resp = NoResp /\ fan.phase = "summary"
    /\ call = "aborted" =>
          /\ fan.tasks[1].timer = "armed"
          /\ fan.age * TickMs >= timeoutMs(prog, fan.tasks[1].provider)
    /\ resp' = CompareResp(summaryOf(call).status, fan, call, summaryOf(call).summary)
    /\ fan' = NoFan
    /\ UNCHANGED usage
    /\ CompareFrame

---------------------------------------------------------------------------
(* The clock, and the end of an exchange *)

\* Date.now() advances; the per-day history starts again on a new UTC day
Tick ==
    /\ resp = NoResp /\ fan = NoFan
    /\ now < MaxNow
    /\ now' = now + 1
    /\ IF utcDay(now + 1) # utcDay(now)
       THEN today' = EmptyMap /\ admitted' = EmptyMap
       ELSE UNCHANGED <<today, admitted>>
    /\ UNCHANGED <<config, issued, fan, usage, buckets, store, rlStore, licenseDevices, reqs, resp, arrived>>

\* the response has been written (or the request handed on): the handler returns to
\* the event loop
Done ==
    /\ resp # NoResp
    /\ resp' = NoResp
    /\ UNCHANGED <<config, issued, fan, usage, now, buckets, store, rlStore, licenseDevices, reqs, today,
                   admitted, arrived>>

\* GET /me that reports the quota without counting the call
me_readsOnly(u, token, t, quota) ==
    LET plan == getPlanFromToken(token)
        key == <<IF token = "" THEN "anon" ELSE token, utcDay(t)>>
    IN  [status |-> 200, plan |-> plan,
         remaining |-> IF plan = "free" THEN Max0(quota - Count(u, key)) ELSE Infinity,
         usage |-> u]

\* GET /me: [status, plan, remaining, usage]
me(u, token, t, quota) ==
    LET plan == getPlanFromToken(token)
        q == checkAndCountQuota(u, token, plan, t, quota)
    IN  [status |-> 200, plan |-> plan, remaining |-> q.remaining, usage |-> q.usage]

\* one GET /me with x-app-key token
Me(token) ==
    /\ prog = "compare9"
    /\ resp = NoResp
    /\ LET m == me(usage, token, now, FREE_DAILY_LIMIT) IN
       /\ m.usage # usage => Total(usage) < MaxHits
       /\ usage' = m.usage
       /\ resp' = [kind |-> "me", status |-> m.status, key |-> token, plan |-> m.plan,
                   remaining |-> m.remaining]
    /\ UNCHANGED <<config, issued, fan, now, buckets, store, rlStore, licenseDevices, reqs,
                   today, admitted, arrived>>

---------------------------------------------------------------------------
(* server.js (303-396): POST /v1/compare-stream *)

\* chunks reader.read() delivers before the body ends or fails
MaxChunks == 4

\* the pieces of the text of the upstream body: the prefix "data: ", the
\* payloads "[DONE]", "{delta}" (JSON with choices[0].delta.content), "{}" (JSON
\* without content) and "junk" (not JSON), a blank and the line feed
Chunks ==
    { <<"data: ", "{delta}", "\n">>,
      <<"data: ">>,
      <<"{delta}", "\n">>,
      <<"data: ", "{}", "\n", "\n">>,
      <<"junk", "\n", "data: ", "junk", "\n">>,
      <<"data: ", "[DONE]", "\n">>,
      <<"data: ", "[DONE]">>,
      <<" ", "data: ", "[DONE]", " ", "\n", "data: ", "{delta}", "\n">> }

\* values of body.provider and of body.prompt (by type)
StreamRequests ==
    [provider : {"openai", "OpenAI", "gemini", "undefined"},
     prompt : {"string", "empty", "number", "undefined"}]

\* String(provider).toLowerCase()
lowerProvider(p) == IF p = "OpenAI" THEN "openai" ELSE p

\* buffer.indexOf("\n"), counted from 1; 0: not found
RECURSIVE indexOfLf(_, _)
indexOfLf(buffer, from) ==
    IF from > Len(buffer) THEN 0
    ELSE IF buffer[from] = "\n" THEN from
    ELSE indexOfLf(buffer, from + 1)

\* String.prototype.trim
RECURSIVE trimLine(_)
trimLine(line) ==
    IF line = <<>> THEN line
    ELSE IF Head(line) = " " THEN trimLine(Tail(line))
    ELSE IF line[Len(line)] = " " THEN trimLine(SubSeq(line, 1, Len(line) - 1))
    ELSE line

\* the event a line causes: "done", "delta" or "" (none)
lineEvent(line) ==
    IF line = <<>> THEN ""
    ELSE IF Head(line) # "data: " THEN ""
    ELSE IF Tail(line) = <<"[DONE]">> THEN "done"
    ELSE IF Tail(line) = <<"{delta}">> THEN "delta"
    ELSE ""

\* the inner loop that goes on reading after [DONE]
RECURSIVE drainLines_breaksOnly(_, _)
drainLines_breaksOnly(buffer, events) ==
    LET idx == indexOfLf(buffer, 1)
        ev == lineEvent(trimLine(SubSeq(buffer, 1, idx - 1)))
        rest == SubSeq(buffer, idx + 1, Len(buffer))
    IN  IF idx = 0 THEN [events |-> events, buffer |-> buffer, finished |-> FALSE]
        ELSE IF ev = "done"
        THEN [events |-> Append(events, "done"), buffer |-> rest, finished |-> FALSE]
        ELSE drainLines_breaksOnly(rest, IF ev = "delta" THEN Append(events, "delta")
                                         ELSE events)

\* while ((idx = buffer.indexOf("\n")) >= 0) { ... }: [events, buffer, finished:
\* the handler sent done and returned]
RECURSIVE drainLines(_, _)
drainLines(buffer, events) ==
    LET idx == indexOfLf(buffer, 1)
        ev == lineEvent(trimLine(SubSeq(buffer, 1, idx - 1)))
        rest == SubSeq(buffer, idx + 1, Len(buffer))
    IN  IF idx = 0 THEN [events |-> events, buffer |-> buffer, finished |-> FALSE]
        ELSE IF ev = "done"
        THEN [events |-> Append(events, "done"), buffer |-> rest, finished |-> TRUE]
        ELSE drainLines(rest, IF ev = "delta" THEN Append(events, "delta") ELSE events)

\* the response of compare-stream: events written, ended: res.end() or res.json()
\* was called; upstream: how the upstream call went
StreamResp(status, req, events, ended, upstream) ==
    [kind |-> "stream", status |-> status, req |-> req, events |-> events,
     ended |-> ended, upstream |-> upstream]

StreamFrame ==
    UNCHANGED <<config, issued, usage, now, buckets, store, rlStore, licenseDevices, reqs,
                today, admitted, arrived>>

\* the handler up to await fetch(...); apiKey: process.env.OPENAI_API_KEY is set
StreamReceive(req, apiKey) ==
    /\ prog = "stream"
    /\ resp = NoResp /\ fan = NoFan
    /\ IF lowerProvider(req.provider) # "openai" \/ req.prompt # "string"
       THEN resp' = StreamResp(400, req, <<>>, TRUE, "none") /\ UNCHANGED fan
       ELSE IF ~apiKey
       THEN resp' = StreamResp(500, req, <<>>, TRUE, "none") /\ UNCHANGED fan
       ELSE /\ fan' = [phase |-> "fetch", req |-> req, events |-> <<"begin">>, buffer |-> <<>>,
                       reads |-> 0]
            /\ UNCHANGED resp
    /\ StreamFrame

\* fetch settles: a streamed 2xx answer, a non-2xx answer, an answer without
\* body, or a rejection (caught at 390)
StreamFetch(outcome) ==
    /\ prog = "stream"
    /\ resp = NoResp /\ fan.phase = "fetch"
    /\ IF outcome = "ok"
       THEN fan' = [fan EXCEPT !.phase = "read"] /\ UNCHANGED resp
       ELSE /\ resp' = StreamResp(200, fan.req, Append(fan.events, "error"), TRUE, outcome)
            /\ fan' = NoFan
    /\ StreamFrame

\* reader.read() delivers a chunk
StreamRead(chunk) ==
    /\ prog = "stream"
    /\ resp = NoResp /\ fan.phase = "read"
    /\ fan.reads < MaxChunks
    /\ LET d == drainLines(fan.buffer \o chunk, fan.events) IN
       IF d.finished
       THEN resp' = StreamResp(200, fan.req, d.events, TRUE, "[DONE]") /\ fan' = NoFan
       ELSE /\ fan' = [fan EXCEPT !.events = d.events, !.buffer = d.buffer,
                                  !.reads = @ + 1]
            /\ UNCHANGED resp
    /\ StreamFrame

\* reader.read() reports the end of the body (threw = FALSE) or rejects
StreamEnds(threw) ==
    /\ prog = "stream"
    /\ resp = NoResp /\ fan.phase = "read"
    /\ resp' = StreamResp(200, fan.req,
                          Append(fan.events, IF threw THEN "error" ELSE "done"), TRUE,
                          IF threw THEN "failed" ELSE "ended")
    /\ fan' = NoFan
    /\ StreamFrame

---------------------------------------------------------------------------
(* Specifications *)

Progs == {"install", "bucket", "store", "store2", "stub", "guard", "auth", "soft", "stream"}
         \cup FanProgs \cup CompareProgs

Init ==
    /\ prog \in Progs
    /\ now = 0
    /\ IF prog \in {"guard", "compare6", "auth", "soft", "stream"} \cup FanProgs
       THEN FREE_DAILY_LIMIT = 1 ELSE FREE_DAILY_LIMIT \in 1..MaxLimit
    /\ \/ RL_DEBUG_SECRET = "" /\ DEBUG_WHITELIST = {}
       \/ prog = "store" /\ RL_DEBUG_SECRET = "s3cret" /\ DEBUG_WHITELIST = {"u1"}
       \/ prog = "stub" /\ RL_DEBUG_SECRET = "s3cret" /\ DEBUG_WHITELIST = {}
    /\ IF prog = "guard" THEN DEVICE_MAX \in 1..MaxDeviceMax ELSE DEVICE_MAX = 1
    /\ IF prog = "stub" THEN SIMULATE \in BOOLEAN ELSE SIMULATE = FALSE
    /\ buckets = EmptyMap
    /\ store = EmptyMap
    /\ rlStore = [day |-> 0, hitsByKey |-> EmptyMap]
    /\ licenseDevices = EmptyMap
    /\ reqs = EmptyBag
    /\ resp = NoResp
    /\ today = EmptyMap
    /\ admitted = EmptyMap
    /\ arrived = EmptyMap
    /\ IF prog = "compare9" THEN FREE_ALLOW_SUMMARY \in BOOLEAN ELSE FREE_ALLOW_SUMMARY = FALSE
    /\ IF prog = "compare9" THEN FREE_MAX_PROVIDERS \in 1..2 ELSE FREE_MAX_PROVIDERS = 2
    /\ usage = EmptyMap
    /\ fan = NoFan
    /\ issued = EmptyMap

NextInstall ==
    \/ \E installId \in InstallIds \cup {""}, bodyOk \in BOOLEAN :
          InstallStart(installId, bodyOk)
    \/ \E r \in BagToSet(reqs), threw \in BOOLEAN : InstallFinish(r, threw)
    \/ Tick
    \/ Done

InitInstall == Init /\ prog = "install"

SpecInstall == InitInstall /\ [][NextInstall]_vars

NextBucket ==
    \/ \E req \in BucketRequests : BucketRequest(req)
    \/ Tick
    \/ Done

InitBucket == Init /\ prog = "bucket"

SpecBucket == InitBucket /\ [][NextBucket]_vars

NextStore ==
    \/ \E req \in StoreRequests : StoreRequest(req)
    \/ Sweep
    \/ Tick
    \/ Done

InitStore == Init /\ prog \in {"store", "store2"}

SpecStore == InitStore /\ [][NextStore]_vars

NextStub ==
    \/ \E req \in StubRequests : StubRequest(req)
    \/ Tick
    \/ Done

InitStub == Init /\ prog = "stub"

SpecStub == InitStub /\ [][NextStub]_vars

NextGuard ==
    \/ \E req \in GuardRequests : GuardRequest(req)
    \/ Done

InitGuard == Init /\ prog = "guard"

SpecGuard == InitGuard /\ [][NextGuard]_vars

NextFan ==
    \/ \E req \in FanRequests : FanReceive(req)
    \/ \E i \in 1..(MaxProviders + 1), ok \in BOOLEAN : ProviderAnswers(i, ok)
    \/ \E i \in 1..(MaxProviders + 1) : TimerFires(i)
    \/ FanTick
    \/ ClientCloses
    \/ Done

InitFan == Init /\ prog \in FanProgs

SpecFan == InitFan /\ [][NextFan]_vars

NextCompare ==
    \/ \E req \in CompareRequests : CompareReceive(req)
    \/ \E i \in 1..2, ok \in BOOLEAN : CompareAnswers(i, ok)
    \/ \E i \in 1..2 : CompareTimer(i)
    \/ \E call \in {"done", "failed", "aborted"} : SummaryEnds(call)
    \/ FanTick
    \/ Done

InitCompare == Init /\ prog \in CompareProgs

SpecCompare == InitCompare /\ [][NextCompare]_vars

InitCompare9 == Init /\ prog = "compare9"

SpecCompare9 == InitCompare9 /\ [][NextCompare]_vars

NextStream ==
    \/ \E req \in StreamRequests, apiKey \in BOOLEAN : StreamReceive(req, apiKey)
    \/ \E outcome \in {"ok", "non2xx", "nobody", "rejected"} : StreamFetch(outcome)
    \/ \E chunk \in Chunks : StreamRead(chunk)
    \/ \E threw \in BOOLEAN : StreamEnds(threw)
    \/ Done

InitStream == Init /\ prog = "stream"

SpecStream == InitStream /\ [][NextStream]_vars

NextSoft ==
    \/ \E req \in SoftRequests : SoftRequest(req)
    \/ Done

InitSoft == Init /\ prog = "soft"

SpecSoft == InitSoft /\ [][NextSoft]_vars

NextAuth ==
    \/ \E req \in AuthRequests : AuthRequest(req)
    \/ \E payload \in SignPayloads, opts \in SignOpts : SignProToken(payload, opts)
    \/ \E body \in ActivateBodies : Activate(body)
    \/ \E req \in AuthRequests : StatusRequest(req)
    \/ Tick
    \/ Done

InitAuth == Init /\ prog = "auth"

SpecAuth == InitAuth /\ [][NextAuth]_vars

\* the POST /compare requests that ask for no summary
QuotaRequests == {req \in CompareRequests : ~req.doSummary}

NextQuota9 ==
    \/ \E req \in QuotaRequests : CompareReceive(req)
    \/ \E i \in 1..2, ok \in BOOLEAN : CompareAnswers(i, ok)
    \/ \E i \in 1..2 : CompareTimer(i)
    \/ \E token \in AppKeys : Me(token)
    \/ FanTick
    \/ Tick
    \/ Done

\* part_009's first server with its clock: POST /compare and GET /me
SpecQuota9 == InitCompare9 /\ [][NextQuota9]_vars

\* the handlers that meter and then call providers: part_004, part_007 and the
\* POST /compare of part_009
NextCalls ==
    \/ \E installId \in InstallIds \cup {""}, bodyOk \in BOOLEAN :
          InstallStart(installId, bodyOk)
    \/ \E r \in BagToSet(reqs), threw \in BOOLEAN : InstallFinish(r, threw)
    \/ \E req \in StubRequests : StubRequest(req)
    \/ \E req \in CompareRequests : CompareReceive(req)
    \/ \E i \in 1..2, ok \in BOOLEAN : CompareAnswers(i, ok)
    \/ \E i \in 1..2 : CompareTimer(i)
    \/ \E call \in {"done", "failed", "aborted"} : SummaryEnds(call)
    \/ FanTick
    \/ prog \in {"install", "stub"} /\ Tick
    \/ Done

InitCalls == Init /\ prog \in {"install", "stub", "compare9"}

SpecCalls == InitCalls /\ [][NextCalls]_vars

\* the rate-limit pipelines of the repository
NextPipeline ==
    \/ \E req \in BucketRequests : BucketRequest(req)
    \/ \E req \in StoreRequests : StoreRequest(req)
    \/ \E req \in StubRequests : StubRequest(req)
    \/ Sweep
    \/ Tick
    \/ Done

InitPipeline == Init /\ prog \in {"bucket", "store", "store2", "stub"}

SpecPipeline == InitPipeline /\ [][NextPipeline]_vars

---------------------------------------------------------------------------
(* Claims *)

\* C1: for every free-tier quota key and every daily limit L >= 1, within one UTC
\* day the first L requests are admitted, the k-th of them reports remaining
\* L - k, every further request of that day is rejected with 429 and remaining
\* 0, and the first request of the key in the next UTC day is admitted again
\* with remaining L - 1.  (today counts the requests of the key in the current
\* UTC day, the one just answered included.)
C1_QuotaPerUtcDay ==
    (resp.kind # "none" /\ resp.consumed) =>
        LET k == Hits(today, resp.key) IN
        IF k <= FREE_DAILY_LIMIT
        THEN ~resp.limit.limited /\ resp.limit.remaining = FREE_DAILY_LIMIT - k
        ELSE resp.kind = "http" /\ resp.status = 429 /\ resp.remaining = 0

\* C3: under every interleaving of the handlers of requests that share a quota
\* key, the number of requests admitted for the key within one UTC day is at
\* most the daily limit.
C3_AdmittedPerUtcDay ==
    \A k \in DOMAIN admitted : admitted[k] <= FREE_DAILY_LIMIT

\* C2: in every quota ledger the stored per-key daily count never exceeds the
\* configured daily ceiling; a request rejected for quota does not increment it.
C2_CountWithinCeiling ==
    /\ \A k \in DOMAIN store : store[k] <= FREE_DAILY_LIMIT
    /\ \A k \in DOMAIN buckets : buckets[k].count <= FREE_DAILY_LIMIT
    /\ \A k \in DOMAIN rlStore.hitsByKey : rlStore.hitsByKey[k] <= FREE_DAILY_LIMIT

\* a request of the pipeline has just been answered on a bypass path
BypassStep == resp = NoResp /\ resp'.kind = "mw" /\ resp'.bypassed

\* C4 as stated: whenever rateLimit takes a bypass path it calls next() and
\* leaves every entry of the quota store unchanged.
C4_BypassLeavesStoreUnchanged ==
    [][BypassStep =>
         /\ resp'.status = "next"
         /\ buckets' = buckets /\ store' = store
         /\ rlStore'.hitsByKey = rlStore.hitsByKey]_vars

\* C4 amended: on a bypass path rateLimit calls next(), creates no key and
\* increments no count; the only change it can make to a quota store is the
\* stub's day rollover, which discards the counters of the previous UTC day.
C4_BypassCountsNothing ==
    [][BypassStep =>
         /\ resp'.status = "next"
         /\ buckets' = buckets /\ store' = store
         /\ \/ rlStore'.hitsByKey = rlStore.hitsByKey
            \/ rlStore.day # utcDay(now) /\ rlStore'.hitsByKey = EmptyMap]_vars

\* a bypassed request answered while the quota store holds counters
C4_Witness ==
    /\ resp.kind = "mw" /\ resp.bypassed /\ resp.status = "next"
    /\ store # EmptyMap \/ buckets # EmptyMap \/ rlStore.hitsByKey # EmptyMap

\* C5: a request with mode real from an identity that is not pro, has no own
\* provider keys, is not admin and has no bypass is passed on with the effective
\* mode simulated; it is never answered with an error because pro is missing
\* (429 is the quota's answer, not the policy's).
C5_DowngradeNeverHardFail ==
    (resp.kind = "mw" /\ resp.wantsReal /\ ~resp.isPro /\ ~resp.hasKeys
        /\ ~resp.admin /\ ~resp.bypassed) =>
        /\ resp.status \in {"next", "429"}
        /\ resp.status = "next" => resp.mode \in {"sim", "simulated"}

\* C6: a request whose req.auth.role is 'admin' passes rateLimit -> proGuard
\* with its requested mode unchanged, without 429, without an exception and
\* without incrementing a quota counter.
C6_AdminAlwaysPasses ==
    (resp.kind = "mw" /\ resp.admin) =>
        resp.status = "next" /\ resp.mode = resp.req.mode /\ ~resp.counted

\* C7: a request whose bearer token fails signature verification, and that has
\* no privilege of its own (no tier, provider or has-keys header, no debug
\* secret), neither bypasses the quota counter nor keeps effective mode real.
C7_ForgedTokenNoPrivilege ==
    (resp.kind = "mw" /\ resp.req.token.present /\ ~resp.req.token.valid
        /\ resp.req.hdr = Headers("", "", "")
        /\ ~(RL_DEBUG_SECRET # "" /\ resp.req.dbg = RL_DEBUG_SECRET)) =>
        /\ ~resp.bypassed
        /\ resp.status = "next" => resp.mode # "real"

\* C8: a request that realModeGuard passes on as real, with a verified token
\* carrying a licenseId and with an x-device-id header, has its deviceId in the
\* registered set of that license; a device outside a full set is never passed
\* on as real.
C8_RealImpliesDeviceBound ==
    (resp.kind = "mw" /\ resp.status = "rateLimitReal"
        /\ resp.req.token.present /\ verifyToken(resp.req.token, now).ok
        /\ resp.req.token.licenseId # "" /\ resp.req.dev # NoDevice) =>
        resp.req.dev \in DeviceSet(licenseDevices, resp.req.token.licenseId)

\* the request just answered went through the device check with a license and
\* a device id
DeviceChecked ==
    /\ resp.kind = "mw" /\ resp.checked
    /\ resp.req.token.licenseId # "" /\ resp.req.dev # NoDevice

\* C9: for every license and order of arrival, the first DEVICE_MAX distinct
\* device ids are admitted (also on every later request, also when the set is
\* full) and every later distinct device id is rejected with 409 DEVICE_LIMIT.
C9_FirstDevicesAdmitted ==
    DeviceChecked =>
        IF resp.req.dev \in DeviceSet(arrived, resp.req.token.licenseId)
        THEN resp.status = "rateLimitReal"
        ELSE /\ resp.status = "409"
             /\ Cardinality(DeviceSet(arrived, resp.req.token.licenseId)) = DEVICE_MAX

\* a device beyond the first DEVICE_MAX of its license has been rejected
C9_Witness ==
    /\ DeviceChecked /\ resp.status = "409"
    /\ Cardinality(DeviceSet(licenseDevices, resp.req.token.licenseId)) = DEVICE_MAX

\* C10: the device set of each license has at most DEVICE_MAX members and only
\* grows: a device id in the set stays in it after every later request.
C10_DeviceSetBoundedMonotone ==
    [][\A l \in Licenses :
          /\ DeviceSet(licenseDevices, l) \subseteq DeviceSet(licenseDevices', l)
          /\ Cardinality(DeviceSet(licenseDevices', l)) <= DEVICE_MAX]_vars

\* a request of a license whose set is full has been passed on, the sets of
\* both licenses being full
C10_Witness ==
    /\ DeviceChecked /\ resp.status = "rateLimitReal"
    /\ \A l \in Licenses : Cardinality(DeviceSet(licenseDevices, l)) = DEVICE_MAX

\* the provider tasks of the comparison request in progress or just answered
CurTasks ==
    IF fan.phase = "run" THEN fan.tasks
    ELSE IF resp.kind = "fan" THEN resp.tasks
    ELSE <<>>

\* the providers the response must hold an entry for: the known members of the
\* list, or the three known providers when the list is empty or absent
Expected(req) ==
    IF ~req.has \/ Len(req.providers) = 0 THEN KnownProviders
    ELSE Range(req.providers) \cap KnownProviders

\* C11: the response of POST /v1/compare-multi holds exactly one result entry
\* for each distinct known member of the provider list, no entry and no error
\* for an unknown member, and one entry for each of the three known providers
\* when the list is empty or absent.
C11_OneEntryPerKnownProvider ==
    (resp.kind = "fan" /\ resp.req.prompt) =>
        /\ resp.status # 400
        /\ resp.status = 200 =>
              /\ \A i \in DOMAIN resp.results : resp.results[i].provider \in Expected(resp.req)
              /\ \A x \in Expected(resp.req) :
                    Cardinality({i \in DOMAIN resp.results : resp.results[i].provider = x}) = 1

\* C12: when the call of one provider throws or times out in a comparison that
\* passed validation, the response is still the success response, with a failure
\* record for that provider and the success records of all other providers.
C12_PartialFailureKeepsOthers ==
    (resp.kind = "fan" /\ resp.status # 400
        /\ \E i \in DOMAIN resp.tasks : resp.tasks[i].call \in {"failed", "aborted"}) =>
        /\ resp.status = 200
        /\ Len(resp.results) = Len(resp.tasks)
        /\ \A i \in DOMAIN resp.tasks :
              /\ resp.results[i].provider = resp.tasks[i].provider
              /\ resp.results[i].ok = (resp.tasks[i].call = "done")

\* C13: the calls to all selected providers are started before any of them has
\* to complete: while the handler waits, no task is still waiting to make its call.
C13_AllCallsStartedTogether ==
    fan.phase = "run" =>
        \A i \in DOMAIN fan.tasks :
            fan.tasks[i].call # "none" \/ fan.tasks[i].rec # "none"

\* C14: when the timeout of one provider's call fires, only the in-flight call
\* of that provider is aborted: a call is aborted only by its own timer.
C14_AbortOnlyOwnCall ==
    \A i \in DOMAIN CurTasks :
        CurTasks[i].call = "aborted" => CurTasks[i].timer = "fired"

\* the timeout the claim gives the task of provider p
ClaimedTimeoutMs(p) == IF p = "gemini" THEN GeminiTimeoutMs ELSE OtherTimeoutMs

\* C15: every provider task settles no later than its own timeout (45000 ms for
\* gemini, 35000 ms otherwise), whatever the providers do, and the response is
\* sent once all tasks have settled: no task is unsettled a clock step after
\* its timeout.
C15_SettlesWithinTimeout ==
    fan.phase = "run" =>
        \A i \in DOMAIN fan.tasks :
            fan.tasks[i].rec = "none" =>
                (fan.age - 1) * TickMs < ClaimedTimeoutMs(fan.tasks[i].provider)

\* C16: every provider call in flight when the client disconnects is eventually
\* aborted: none of them runs to its end.
C16_DisconnectAbortsCalls ==
    \A i \in DOMAIN CurTasks :
        CurTasks[i].atGone => CurTasks[i].call \notin {"done", "failed"}

\* the summary call of the request just answered failed or was aborted
SummaryFailed == resp.kind = "compare" /\ resp.summaryCall \in {"failed", "aborted"}

\* C17: in POST /compare a failure of the summary call never changes the outcome:
\* the response is the success response with the result of every provider called,
\* and its summary field is "No se pudo generar resumen.".
C17_SummaryFailureIsFallback ==
    SummaryFailed =>
        /\ resp.status = 200
        /\ resp.summary = FallbackSummary
        /\ Len(resp.results) = Len(resp.enforced)
        /\ \A i \in DOMAIN resp.enforced :
              \E j \in DOMAIN resp.results : resp.results[j].provider = resp.enforced[i]

\* the summary call failed after two providers had answered, one of them with
\* an error
C17_Witness ==
    /\ SummaryFailed
    /\ Len(resp.results) = 2
    /\ \E j \in DOMAIN resp.results : ~resp.results[j].ok

\* the request set doSummary and the plan permits the summary
SummaryPermitted(req, plan) ==
    req.doSummary /\ (plan = "pro" \/ FREE_ALLOW_SUMMARY)

\* C18: in POST /compare (part_009) the summary provider is called only if the
\* request set doSummary and the plan permits it (pro, or free with
\* FREE_ALLOW_SUMMARY); in every other case no summary call is made and the
\* summary field is the empty string.
C18_SummaryOnlyWhenPermitted ==
    /\ fan.phase = "summary" => SummaryPermitted(fan.req, fan.plan)
    /\ resp.kind = "compare" =>
          /\ resp.summaryCall # "none" => SummaryPermitted(resp.req, resp.plan)
          /\ (resp.status = 200 /\ ~SummaryPermitted(resp.req, resp.plan)) =>
                resp.summaryCall = "none" /\ resp.summary = ""

\* a free request that asked for a summary it is not entitled to got its
\* results without one
C18_Witness ==
    /\ resp.kind = "compare" /\ resp.status = 200
    /\ resp.req.doSummary /\ resp.plan = "free" /\ ~FREE_ALLOW_SUMMARY
    /\ Len(resp.results) > 0
    /\ resp.summaryCall = "none" /\ resp.summary = ""

\* the token of the request just answered fails one of the checks of HS256
\* verification at the time of the request
BadToken(token, t) ==
    \/ token.form # "jwt"
    \/ token.key # JWT_SECRET
    \/ token.alg # "HS256"
    \/ token.exp # NoExp /\ token.exp <= t

\* C19: verifyToken returns ok = false and no decoded claims for every token with
\* an invalid signature, an algorithm other than HS256 or a passed expiry;
\* requireAuth sets req.user and calls next only when verifyToken returned
\* ok = true, and otherwise answers 401 (NO_TOKEN without a token, INVALID_TOKEN
\* when verification fails) without calling next.
C19_OnlyVerifiedTokensPass ==
    resp.kind = "auth" =>
        LET v == verifyToken(resp.token, resp.at) IN
        /\ (resp.token.present /\ BadToken(resp.token, resp.at)) =>
              ~v.ok /\ "decoded" \notin DOMAIN v
        /\ resp.next =>
              /\ resp.token.present /\ ~BadToken(resp.token, resp.at)
              /\ v.ok /\ resp.user = v.decoded /\ resp.status = 0
        /\ ~resp.token.present =>
              resp.status = 401 /\ resp.code = "NO_TOKEN" /\ ~resp.next /\ resp.user = NoUser
        /\ (resp.token.present /\ ~v.ok) =>
              resp.status = 401 /\ resp.code = "INVALID_TOKEN" /\ ~resp.next
              /\ resp.user = NoUser

\* a token signed with the server's secret under HS512 was refused after the
\* clock had advanced
C19_Witness ==
    /\ resp.kind = "auth" /\ resp.at > 0
    /\ resp.token.present /\ resp.token.form = "jwt"
    /\ resp.token.key = JWT_SECRET /\ resp.token.alg = "HS512"
    /\ resp.token.exp = NoExp
    /\ resp.code = "INVALID_TOKEN" /\ ~resp.next

\* C20: claims supplied by the caller cannot change the scope or the plan of an
\* issued token: every token issued by signProToken or by POST /activate carries
\* exactly the default scope ["pro", "neutral:real"] and plan pro.
C20_IssuedScopeIsDefault ==
    (resp.kind \in {"signed", "activate"} /\ resp.token.present) =>
        resp.token.scope = ProScope /\ resp.token.plan = "pro"

\* C21: for every valid activation key, every activation with that key (any
\* number of times, with any deviceId, in any order with activations of other
\* keys) issues a token with the same licenseId.
C21_LicenseIdFunctionOfKey ==
    \A key \in DOMAIN issued :
        \A a, b \in issued[key] : a.licenseId = b.licenseId

\* both valid keys were activated, one of them with two different deviceIds
C21_Witness ==
    /\ {"MIC-PRO-AAAA", "MIC-PRO-BBBB"} \subseteq DOMAIN issued
    /\ Cardinality(issued["MIC-PRO-AAAA"]) = 2
    /\ resp.kind = "activate" /\ resp.status = 200

\* C22: POST /activate answers 400 NO_KEY when the request has no key and 400
\* INVALID_KEY for every present key on neither allow-list; it issues a token
\* only for a key on one of the lists, and no request with a missing or
\* unmatched key gets a token or a 5xx.
C22_BadKeyIs400 ==
    resp.kind = "activate" =>
        LET key == resp.body.key
            listed == key \in allowPlain \/ (isString(key) /\ hmacHex(key) \in allowHmac)
        IN  /\ key = "" => resp.status = 400 /\ resp.code = "NO_KEY"
            /\ (key # "" /\ ~listed) => resp.status = 400 /\ resp.code = "INVALID_KEY"
            /\ resp.token.present => listed
            /\ ~listed => resp.status < 500

\* C23: GET /status answers 401 for every request with a missing token and for
\* every request whose token is invalid (bad signature or expired); it returns
\* ok:true with plan, scope, licenseId and deviceId only for a token that
\* verifies.
C23_StatusOnlyForVerified ==
    resp.kind = "status" =>
        /\ ~resp.token.present => resp.status = 401
        /\ (resp.token.present /\ ~verifyToken(resp.token, resp.at).ok) => resp.status = 401
        /\ resp.ok => verifyToken(resp.token, resp.at).ok

\* C24: authSoft never rejects: for every combination of headers and body it
\* sends no response, calls next exactly once, and leaves req.state with mode in
\* {real, sim}, a non-empty userId and boolean isPro and hasKeys.
C24_AuthSoftNeverRejects ==
    resp.kind = "soft" =>
        /\ ~resp.threw /\ ~resp.sent /\ resp.nexts = 1
        /\ resp.state.mode \in {"real", "sim"}
        /\ resp.state.userId # ""
        /\ resp.state.isPro \in BOOLEAN /\ resp.state.hasKeys \in BOOLEAN

\* the response r refuses the request on quota or access grounds
Refused(r) ==
    \/ r.kind \in {"http", "compare"} /\ r.status = 429
    \/ r.kind = "mw" /\ r.status \in {"429", "402", "409"}

\* this step starts provider calls: a handler is suspended on its calls
\* (part_004) or the calls of a comparison are in flight (part_009)
CallsStart ==
    \/ BagCardinality(reqs') > BagCardinality(reqs)
    \/ fan = NoFan /\ fan' # NoFan /\ Len(fan'.tasks) > 0

\* this step consumes one unit of the quota ledger of the running server
Consumes ==
    \/ prog = "install" /\ buckets' # buckets /\ resp'.consumed
    \/ prog = "compare9" /\ Total(usage') = Total(usage) + 1

C26_SweepKeepsCurrentDay ==
    resp.kind = "sweep" =>
        /\ \A k \in DOMAIN resp.before :
              k[1] = utcDay(now) => k \in DOMAIN store /\ store[k] >= resp.before[k]
        /\ \A k \in DOMAIN resp.before \ DOMAIN store : k[1] # utcDay(now)
        /\ DOMAIN store \subseteq DOMAIN resp.before

\* a sweep after UTC midnight removed an entry of the day before and kept an
\* entry of the new day
C26_Witness ==
    /\ resp.kind = "sweep" /\ utcDay(now) > 0
    /\ DOMAIN resp.before \ DOMAIN store # {}
    /\ \E k \in DOMAIN store : k[1] = utcDay(now) /\ store[k] >= 1

\* C27: a request with mode real whose tier is pro, or which declares its own
\* provider keys, is never rejected with 429 and never increments a quota
\* counter, however many requests the same caller made before it that day.
C27_RealProNeverMetered ==
    (resp.kind = "mw" /\ toLowerCase(resp.req.mode) = "real" /\ resp.wantsReal
        /\ (resp.isPro \/ resp.hasKeys)) =>
        resp.status # "429" /\ ~resp.counted

\* the debug-header bypass was granted to the request just answered
DebugGranted ==
    \/ prog = "store" /\ resp.rateLimitKey = "debug-header"
    \/ prog = "stub" /\ resp.bypassed

\* the request just answered is exempt from the quota on other grounds:
\* white-listed user, or real mode with pro tier or own keys (rateLimit.js)
OtherwiseExempt ==
    /\ prog = "store"
    /\ \/ resp.userId \in DEBUG_WHITELIST
       \/ resp.wantsReal /\ (resp.isPro \/ resp.hasKeys)

\* C28: the debug-header bypass of rateLimit is granted exactly when a non-empty
\* RL_DEBUG_SECRET is configured and the X-Debug-Bypass header equals it; with
\* no secret configured, or with a header that differs from the secret, the
\* header bypasses nothing: the request is metered like any other.
C28_DebugBypassOnlyWithSecret ==
    (resp.kind = "mw" /\ prog \in {"store", "stub"}) =>
        /\ DebugGranted <=> (RL_DEBUG_SECRET # "" /\ resp.req.dbg = RL_DEBUG_SECRET)
        /\ DebugGranted => resp.status # "429" /\ ~resp.counted
        /\ (~DebugGranted /\ ~OtherwiseExempt) => resp.status = "429" \/ resp.counted

\* with a secret configured, a request carrying another header value was
\* rejected on quota
C28_Witness ==
    /\ resp.kind = "mw" /\ prog = "store"
    /\ RL_DEBUG_SECRET = "s3cret" /\ resp.req.dbg = "wrong"
    /\ resp.status = "429"

\* C29: when a compare-multi request carries no mode, the requested and
\* effective mode is simulated in every configuration: no request without an
\* explicit mode=real reaches the real branch of the handler.
C29_NoModeIsSimulated ==
    (resp.kind = "mw" /\ prog \in {"store", "stub"}
        /\ toLowerCase(resp.req.mode) # "real") =>
        /\ ~resp.wantsReal
        /\ resp.status = "next" => resp.mode # "real"
        /\ prog = "stub" => resp.served # "real"

\* the ledger key of an app key at clock t
UsageKey(token, t) == <<IF token = "" THEN "anon" ELSE token, utcDay(t)>>

\* C30: each GET /me consumes one unit of the per-key daily counter that POST
\* /compare uses: for a free key below the quota the count rises by one and the
\* returned remaining is the quota minus the new count; for a free key at the
\* quota it returns remaining 0 and leaves the count unchanged.
C30_MeConsumesOneUnit ==
    [][ (resp = NoResp /\ resp'.kind = "me" /\ resp'.plan = "free") =>
            LET k == UsageKey(resp'.key, now)
                before == Count(usage, k)
                after == Count(usage', k)
            IN  /\ \A x \in DOMAIN usage \ {k} : x \in DOMAIN usage' /\ usage'[x] = usage[x]
                /\ IF before < FREE_DAILY_LIMIT
                   THEN after = before + 1 /\ resp'.remaining = FREE_DAILY_LIMIT - after
                   ELSE after = before /\ resp'.remaining = 0
      ]_vars

\* a free key whose quota was used up by POST /compare and GET /me together is
\* told it has nothing left
C30_Witness ==
    /\ resp.kind = "me" /\ resp.key = "demo-free" /\ resp.remaining = 0
    /\ FREE_DAILY_LIMIT = 2
    /\ Count(usage, UsageKey("demo-free", now)) = 2
    /\ fan # NoFan /\ fan.req.key = "demo-free"

\* the comparison whose calls are in flight or whose response is being sent
CurCompare ==
    IF fan # NoFan THEN fan ELSE resp

\* the known providers a request asked for, in the priority order of the handler
RequestedKnown(req) ==
    SelectSeq(<<"openai", "gemini">>, LAMBDA x : x \in providersOf(req))

\* the providers a comparison has called so far: the calls that settled, and
\* the calls in flight (the summary call included)
Called ==
    IF fan = NoFan THEN {}
    ELSE {fan.results[i].provider : i \in DOMAIN fan.results}
            \cup {fan.tasks[i].provider : i \in DOMAIN fan.tasks}

ReachesDeviceCheck(req, t) ==
    /\ req.method = "POST" /\ toLowerCase(req.mode) = "real"
    /\ ~allowByUserProvidedKeys(req)
    /\ req.token.present /\ verifyToken(req.token, t).ok
    /\ tokenAllowsReal(verifyToken(req.token, t).decoded)

\* C32: the device registry changes only by adding the deviceId of a newly
\* admitted device to the set of the licenseId of a verified token on a
\* mode=real POST; it is unchanged when licenseId or deviceId is absent (the
\* request is allowed), when the device is rejected with 409, and on every
\* request that is not POST, not mode=real, passed by the own-keys header, or
\* downgraded to simulated.
C32_RegistryChangesOnlyOnAdmission ==
    [][IF prog = "guard" /\ resp = NoResp /\ resp'.kind = "mw"
       THEN LET req == resp'.req
                lic == req.token.licenseId
                set == DeviceSet(licenseDevices, lic)
            IN  IF ReachesDeviceCheck(req, now) /\ lic # "" /\ req.dev # NoDevice
                THEN IF req.dev \in set
                     THEN licenseDevices' = licenseDevices
                             /\ resp'.status = "rateLimitReal"
                     ELSE IF resp'.status = "409"
                     THEN licenseDevices' = licenseDevices
                     ELSE /\ resp'.status = "rateLimitReal"
                          /\ licenseDevices' = Put(licenseDevices, lic, set \cup {req.dev})
                ELSE /\ licenseDevices' = licenseDevices
                     /\ ReachesDeviceCheck(req, now) => resp'.status = "rateLimitReal"
                     /\ ~ReachesDeviceCheck(req, now) => resp'.status # "409"
       ELSE licenseDevices' = licenseDevices]_vars

\* a device of license L2 has been admitted into the registry, which holds two
\* devices of L2 and one of L1
C32_Witness ==
    /\ resp.kind = "mw" /\ prog = "guard" /\ resp.status = "rateLimitReal"
    /\ ReachesDeviceCheck(resp.req, now)
    /\ resp.req.token.licenseId = "L2"
    /\ resp.req.dev \in DeviceSet(licenseDevices, "L2")
    /\ Cardinality(DeviceSet(licenseDevices, "L2")) = 2
    /\ Cardinality(DeviceSet(licenseDevices, "L1")) = 1

\* C33: a request that arrives at a time now >= resetAt of its bucket is
\* treated as the first request of a new day: it is never rejected because of
\* the count of the expired bucket, also when now equals resetAt exactly.
C33_ResetAtBoundaryStartsNewDay ==
    [][(/\ prog = "install" /\ resp = NoResp
        /\ resp'.kind \in {"http", "await"} /\ resp'.consumed
        /\ resp'.key \in DOMAIN buckets
        /\ now >= buckets[resp'.key].resetAt) =>
           /\ ~resp'.limit.limited
           /\ resp'.limit.remaining = FREE_DAILY_LIMIT - 1
           /\ buckets'[resp'.key].count = 1]_vars

\* the events of the compare-stream exchange in progress or just completed
StreamEvents ==
    IF resp.kind = "stream" THEN resp.events ELSE fan.events

\* C34: for every POST /v1/compare-stream request that passed validation the
\* events written are one begin, then zero or more delta, then exactly one
\* terminal event (done or error), after which the response is ended; no event
\* follows the terminal event and done is never written twice, however the
\* upstream call ends.
C34_StreamEventOrder ==
    (prog = "stream" /\ (fan # NoFan \/ (resp.kind = "stream" /\ resp.status = 200))) =>
        LET ev == StreamEvents
            ended == resp.kind = "stream" /\ resp.ended
        IN  /\ Len(ev) >= 1 /\ ev[1] = "begin"
            /\ \A i \in 2..Len(ev) :
                  /\ ev[i] \in {"delta", "done", "error"}
                  /\ ev[i] \in {"done", "error"} => i = Len(ev)
            /\ ended <=> (Len(ev) >= 2 /\ ev[Len(ev)] \in {"done", "error"})
            /\ (resp.kind = "stream" /\ resp.upstream \in {"[DONE]", "ended"}) =>
                  ev[Len(ev)] = "done"
            /\ (resp.kind = "stream"
                   /\ resp.upstream \in {"non2xx", "nobody", "rejected", "failed"}) =>
                  ev[Len(ev)] = "error"

\* the upstream sent two deltas and then [DONE]: the stream was closed with one
\* done
C34_Witness ==
    /\ prog = "stream" /\ resp.kind = "stream" /\ resp.upstream = "[DONE]"
    /\ resp.events = <<"begin", "delta", "delta", "done">> /\ resp.ended

\* C35: in the pipeline authSoft -> rateLimit -> proGuard -> handler of the stub
\* server the handler returns the real-mode response only for a request that
\* is pro or carries the valid debug bypass: for every value of body.mode a
\* request that is neither gets the simulated response or a rejection.
C35_RealResponseOnlyForProOrBypass ==
    (prog = "stub" /\ resp.kind = "mw" /\ ~resp.isPro /\ ~resp.bypassed) =>
        \/ resp.status = "next" /\ resp.served = "sim"
        \/ resp.status \in {"402", "429"} /\ resp.served = "none"

\* C36: in the pipeline authSoft -> rateLimit (day-keyed store) -> proGuard, for
\* every request that takes neither the debug-header nor the whitelist bypass,
\* the quota counter of the caller is incremented if and only if the effective
\* mode after proGuard is 'sim'; a request that leaves proGuard with mode 'real'
\* has consumed no quota.
C36_CountedIffSimulated ==
    [][(/\ prog \in {"store", "store2"} /\ resp = NoResp
        /\ resp'.kind = "mw" /\ resp'.status = "next"
        /\ resp'.rateLimitKey \notin {"debug-header", "whitelist"}) =>
           LET key == <<utcDay(now), resp'.userId>> IN
           /\ resp'.mode \in {"sim", "real"}
           /\ resp'.mode = "sim" <=> Count(store', key) = Count(store, key) + 1
           /\ resp'.mode = "real" => store' = store
           /\ \A k \in DOMAIN store : k # key => Count(store', k) = store[k]]_vars

\* a request for mode real without pro and without keys has left proGuard as
\* sim with its counter raised to the limit of two
C36_Witness ==
    /\ prog = "store" /\ resp.kind = "mw" /\ resp.status = "next"
    /\ resp.wantsReal /\ resp.mode = "sim" /\ ~resp.bypassed /\ resp.counted
    /\ FREE_DAILY_LIMIT = 2
    /\ Count(store, <<utcDay(now), resp.userId>>) = 2

\* C37: in POST /v1/compare-multi of server.js the results array has the order
\* of the normalized provider list of the request under every completion order
\* of the provider calls: results[i].provider is the i-th known provider of the
\* request, whichever provider call settles first.
C37_ResultsInRequestOrder ==
    (prog = "multi" /\ resp.kind = "fan" /\ resp.status = 200) =>
        /\ Len(resp.results) = Len(normalized(resp.req.providers))
        /\ \A i \in DOMAIN resp.results :
              /\ resp.results[i].provider = normalized(resp.req.providers)[i]
              /\ resp.results[i].ok = (resp.tasks[i].rec = "ok")

\* the call of the second provider settled before the call of the first, the
\* two providers being different and the first one failing
C37_Witness ==
    /\ prog = "multi" /\ resp.kind = "fan" /\ resp.status = 200
    /\ Len(resp.tasks) = 2
    /\ resp.tasks[2].nth < resp.tasks[1].nth
    /\ resp.tasks[1].provider # resp.tasks[2].provider
    /\ ~resp.results[1].ok /\ resp.results[2].ok

\* C38: in the install-id limited server the quota.remaining value of a success
\* response equals the remaining value that consumePoint returned for that same
\* request, under every interleaving with other requests of the same install id
\* and across the UTC day boundary.
C38_RemainingIsOwnDecision ==
    (prog = "install" /\ resp.kind = "http" /\ resp.status = 200) =>
        resp.remaining = resp.limit.remaining

\* the step receives a request of the install-id limited server
InstallReceived ==
    /\ prog = "install" /\ resp = NoResp
    /\ resp'.kind = "await" \/ (resp'.kind = "http" /\ reqs' = reqs)

\* the step receives a POST /compare request
CompareReceived ==
    /\ prog = "compare9" /\ resp = NoResp /\ fan = NoFan
    /\ fan' # NoFan \/ resp'.kind = "compare"

\* the bucket of the key holds one unit more than before (one unit, when the
\* step started a new bucket) and no other bucket changed
OneBucketUnit(key) ==
    /\ key \in DOMAIN buckets'
    /\ \/ /\ key \in DOMAIN buckets
          /\ buckets'[key] = [buckets[key] EXCEPT !.count = @ + 1]
       \/ /\ key \notin DOMAIN buckets \/ buckets'[key].resetAt # buckets[key].resetAt
          /\ buckets'[key].count = 1
    /\ \A k \in DOMAIN buckets : k # key => buckets'[k] = buckets[k]

\* the usage counter of the key holds one unit more than before and no other
\* counter changed
OneUsageUnit(key) ==
    /\ Count(usage', key) = Count(usage, key) + 1
    /\ \A k \in DOMAIN usage : k # key => Count(usage', k) = usage[k]

\* what a step does to the counters when the requests among keyed are the ones
\* that are charged
ChargesOnce(keyed(_)) ==
    IF InstallReceived
    THEN IF resp'.status = 429 \/ ~keyed(resp'.key)
         THEN buckets' = buckets
         ELSE OneBucketUnit(resp'.key)
    ELSE IF CompareReceived
    THEN LET c == IF fan' # NoFan THEN fan' ELSE resp' IN
         IF resp'.kind = "compare" /\ resp'.status = 429
         THEN usage' = usage
         ELSE OneUsageUnit(UsageKey(c.req.key, now))
    ELSE buckets' = buckets /\ usage' = usage

\* C39 as stated: every request that is not rejected for quota consumes exactly
\* one quota unit, whatever its final status; the counter is incremented before
\* the body is validated, and no request increments it by more than one.
C39_EveryRequestChargedOnce ==
    [][ChargesOnce(LAMBDA k : TRUE)]_vars

\* C39 amended: every request that carries a quota key (an X-Install-ID header;
\* POST /compare always has one) and is not rejected for quota consumes exactly
\* one quota unit, whatever its final status; a request without X-Install-ID
\* is answered 400 and consumes nothing.
C39_KeyedRequestChargedOnce ==
    [][/\ ChargesOnce(LAMBDA k : k # "")
       /\ (InstallReceived /\ resp'.key = "") => resp'.status = 400]_vars

\* a request with an install id and without prompt was answered 400 after it
\* took the second and last unit of its bucket
C39_Witness ==
    /\ prog = "install" /\ resp.kind = "http" /\ resp.status = 400
    /\ resp.key # "" /\ resp.consumed
    /\ FREE_DAILY_LIMIT = 2 /\ buckets[resp.key].count = 2

=============================================================================
